---- MODULE Spec2Model ----
(***************************************************************************)
(* Model of tsl/src/continuous_aggs/cagg_create.c: the compilation of a    *)
(* CREATE VIEW ... WITH (timescaledb.continuous) statement into a          *)
(* materialization table, a partial-population view and a finalize view.   *)
(*                                                                         *)
(* Parse trees are records tagged by node type.  A NULL pointer is the     *)
(* record NullNode, a NULL C string is NoName, InvalidOid is the string    *)
(* "InvalidOid".  Functions that can ereport(ERROR) return a record with   *)
(* an err field; err = NoErr means the function returned normally.         *)
(***************************************************************************)
EXTENDS Integers, Sequences, FiniteSets, TLC

VARIABLES
    pc,         \* position inside tsl_process_continuous_agg_viewstmt / cagg_create
    err,        \* message of the ereport/elog that aborted the statement, or NoErr
    stmt,       \* the ViewStmt: view name and alias list
    query,      \* panquery: the analyzed user query handed to cagg_create
    query0,     \* history: the analyzed query exactly as parse_analyze returned it
    timebucket_exprinfo, \* CAggTimebucketInfo returned by cagg_validate_query
    mattblinfo, \* MatTableColumnInfo of this compilation
    finalqinfo, \* FinalizeQueryInfo of this compilation
    cc,         \* the other locals of cagg_create (mataddress, mat_htid, final_selquery)
    db,         \* what the external collaborators hold: relations, hypertables
    lastcall    \* history: the last call made (and, for the schema builder alone,
                \* what it was given and returned)

vars == <<pc, err, stmt, query, query0, timebucket_exprinfo, mattblinfo, finalqinfo,
          cc, db, lastcall>>

----------------------------------------------------------------------------
(* Names fixed by the source *)

FINALFN == "finalize_agg"
PARTIALFN == "partialize_agg"
TIMEBUCKETFN == "time_bucket"
CHUNKTUPFN == "chunk_for_tuple"
MATCHUNKCOLNM == "chunk_id"
MATPARTCOLNM == "time_partition_col"
MATPARTCOL_INTERVAL_FACTOR == 10
CAGG_INVALIDATION_TRIGGER == "continuous_agg_invalidation_trigger"

NoErr == "ok"
NoName == ""
InvalidOid == "InvalidOid"
NullNode == [tag |-> "NULL"]

BYTEAOID == "bytea"
INT4OID == "int4"
INT8OID == "int8"
TEXTOID == "text"
NAMEOID == "name"
BOOLOID == "bool"
INTERNALOID == "internal"
DEFAULT_COLLATION_OID == "default"

----------------------------------------------------------------------------
(* Node constructors (nodes/makefuncs.c as used by the source) *)

makeVar(varno, varattno, vartype, vartypmod, varcollid) ==
    [tag |-> "Var", varno |-> varno, varattno |-> varattno, vartype |-> vartype,
     vartypmod |-> vartypmod, varcollid |-> varcollid]

makeConst(consttype, consttypmod, constcollid, constvalue, constisnull) ==
    [tag |-> "Const", consttype |-> consttype, consttypmod |-> consttypmod,
     constcollid |-> constcollid, constvalue |-> constvalue,
     constisnull |-> constisnull]

makeNullConst(consttype, consttypmod, constcollid) ==
    makeConst(consttype, consttypmod, constcollid, "null", TRUE)

makeTargetEntry(expr, resno, resname, resjunk) ==
    [tag |-> "TargetEntry", expr |-> expr, resno |-> resno, resname |-> resname,
     ressortgroupref |-> 0, resorigtbl |-> InvalidOid, resorigcol |-> 0,
     resjunk |-> resjunk]

makeFuncExpr(funcid, rettype, args, funccollid) ==
    [tag |-> "FuncExpr", funcid |-> funcid, funcresulttype |-> rettype,
     funccollid |-> funccollid, args |-> args]

makeOpExpr(opno, rettype, args) ==
    [tag |-> "OpExpr", opno |-> opno, opresulttype |-> rettype,
     opcollid |-> InvalidOid, args |-> args]

makeColumnDef(colname, typeOid, typmod, collOid) ==
    [colname |-> colname, typeOid |-> typeOid, typmod |-> typmod, collOid |-> collOid]

(* An aggregate call as parse analysis builds it: its arguments are a list *)
(* of TargetEntry nodes numbered from 1.                                    *)
AggArgs(exprs) ==
    [i \in 1..Len(exprs) |-> makeTargetEntry(exprs[i], i, NoName, FALSE)]

makeAggref(aggfnoid, aggtype, aggcollid, inputcollid, exprs) ==
    [tag |-> "Aggref", aggfnoid |-> aggfnoid, aggtype |-> aggtype,
     aggcollid |-> aggcollid, inputcollid |-> inputcollid, args |-> AggArgs(exprs),
     aggorder |-> FALSE, aggdistinct |-> FALSE, aggfilter |-> FALSE]

----------------------------------------------------------------------------
(* nodes/nodeFuncs.c: result type, type modifier and collation of a node *)

exprType(n) ==
    CASE n.tag = "Var" -> n.vartype
      [] n.tag = "Const" -> n.consttype
      [] n.tag = "Aggref" -> n.aggtype
      [] n.tag = "FuncExpr" -> n.funcresulttype
      [] n.tag = "OpExpr" -> n.opresulttype

exprTypmod(n) ==
    CASE n.tag = "Var" -> n.vartypmod
      [] n.tag = "Const" -> n.consttypmod
      [] OTHER -> -1

exprCollation(n) ==
    CASE n.tag = "Var" -> n.varcollid
      [] n.tag = "Const" -> n.constcollid
      [] n.tag = "Aggref" -> n.aggcollid
      [] n.tag = "FuncExpr" -> n.funccollid
      [] n.tag = "OpExpr" -> n.opcollid

(* The sub-nodes expression_tree_walker / expression_tree_mutator visit, in *)
(* the order they visit them.                                               *)
HasArgs(n) == n.tag \in {"Aggref", "FuncExpr", "OpExpr"}


----------------------------------------------------------------------------
(* The system catalogs the source reads.  Oids are written as signatures. *)

(* pg_aggregate rows looked up by cagg_agg_validate *)
pg_aggregate ==
    [a \in {"min(int4)", "max(int4)", "max(text)", "bool_and(bool)", "avg(int8)",
            "mode(int4)", "array_agg(int4)", "opaque_agg(int4)"} |->
        [aggkind |-> IF a = "mode(int4)" THEN "o" ELSE "n",
         aggcombinefn |-> IF a = "array_agg(int4)" THEN InvalidOid ELSE "combine",
         aggtranstype |-> IF a \in {"avg(int8)", "opaque_agg(int4)"}
                          THEN INTERNALOID ELSE INT4OID,
         aggdeserialfn |-> IF a = "avg(int8)" THEN "deserial" ELSE InvalidOid]]

(* pg_proc rows: name and volatility of the functions the queries call *)
pg_proc ==
    [f \in {"time_bucket(int8,int8)", "time_bucket(int8,int8,int8)", "abs(int8)",
            "now()"} |->
        [proname |-> IF f \in {"time_bucket(int8,int8)", "time_bucket(int8,int8,int8)"}
                     THEN TIMEBUCKETFN
                     ELSE IF f = "abs(int8)" THEN "abs" ELSE "now",
         provolatile |-> IF f = "now()" THEN "s" ELSE "i"]]

(* pg_class rows of the relations a query can name *)
pg_class ==
    [r \in {"events", "plain", "secure", "forced", "aview", "wide"} |->
        [relkind |-> IF r = "aview" THEN "v" ELSE "r",
         relrowsecurity |-> (r = "secure"),
         relforcerowsecurity |-> (r = "forced")]]

(* int64: a 64-bit two's complement integer as four 16-bit limbs, least    *)
(* significant first.                                                       *)
Int64Limb == 2 ^ 16
Int64SignLimb == 2 ^ 15

(* The int64 of a small natural number *)
Int64(n) == <<n % Int64Limb, (n \div Int64Limb) % Int64Limb, 0, 0>>

(* factor * x in int64 arithmetic: the low 64 bits of the product, and      *)
(* whether the product lies outside the int64 range                         *)
Int64Mul(factor, x) ==
    LET p1 == factor * x[1]
        p2 == factor * x[2] + (p1 \div Int64Limb)
        p3 == factor * x[3] + (p2 \div Int64Limb)
        p4 == factor * x[4] + (p3 \div Int64Limb)
        top == p4 % Int64Limb
        carry == p4 \div Int64Limb
    IN [value |-> <<p1 % Int64Limb, p2 % Int64Limb, p3 % Int64Limb, top>>,
        overflow |-> IF x[4] < Int64SignLimb
                     THEN carry # 0 \/ top >= Int64SignLimb
                     ELSE ~(carry = factor - 1 /\ top >= Int64SignLimb)]

(* The hypertable cache: NullNode for a relation that is no hypertable.     *)
(* Column 3 of every hypertable is its open (time) dimension.  The chunk    *)
(* interval of wide is 1844674407370955162.                                 *)
HtInterval == 60
HtPartColNo == 3
WideInterval == <<39322, 39321, 39321, 6553>>
ts_hypertable_cache_get_entry(relid) ==
    IF relid \in {"events", "secure", "forced", "wide"}
    THEN [id |-> CASE relid = "events" -> 1 [] relid = "secure" -> 2
                   [] relid = "forced" -> 3 [] OTHER -> 9,
          main_table_relid |-> relid,
          column_attno |-> HtPartColNo,
          interval_length |-> IF relid = "wide" THEN WideInterval
                              ELSE Int64(HtInterval)]
    ELSE NullNode

----------------------------------------------------------------------------
(* Query shape validator *)

get_timebucketfnoid == {f \in DOMAIN pg_proc : pg_proc[f].proname = TIMEBUCKETFN}

caggtimebucketinfo_init(hypertable_id, hypertable_oid, hypertable_partition_colno, hypertable_partition_col_interval) ==
    [htid |-> hypertable_id, htoid |-> hypertable_oid,
     htpartcolno |-> hypertable_partition_colno,
     htpartcol_interval_len |-> hypertable_partition_col_interval,
     bucket_width |-> 0, sortref |-> 0]

(* optimizer/tlist.c: the target entry a grouping clause refers to *)
get_sortgroupclause_tle(sgc, targetList) ==
    LET hits == {i \in 1..Len(targetList) :
                    targetList[i].ressortgroupref = sgc.tleSortGroupRef}
    IN targetList[CHOOSE i \in hits : \A j \in hits : i <= j]

(* utils.c: a bucket width constant as an int64.  A Datum is written as    *)
(* the literal of its value; an integer type's Datum is that integer.       *)
ts_interval_value_to_internal(constvalue, consttype) ==
    CASE constvalue = "1" -> 1
      [] constvalue = "2" -> 2
      [] constvalue = "10" -> 10
      [] constvalue = "3600" -> 3600

(* The checks of one time_bucket candidate, in source order.  NoErr when    *)
(* the candidate passes all of them.                                        *)
TimebucketCandidateErr(tbinfo, fe) ==
    LET col_arg == fe.args[2]
    IN IF ~(col_arg.tag = "Var") \/ col_arg.varattno # tbinfo.htpartcolno
       THEN "time_bucket function for continuous aggregate query should be called on the dimension column of the hypertable "
       ELSE IF ~(Len(fe.args) = 2)
       THEN "time_bucket function for continuous aggregate query cannot use optional arguments"
       ELSE IF ~(fe.args[1].tag = "Const")
       THEN "first argument to time_bucket function should be a constant for continuous aggregate query"
       ELSE NoErr

RECURSIVE caggtimebucket_loop(_, _, _, _, _)
caggtimebucket_loop(tbinfo, groupClause, targetList, i, found) ==
    IF i > Len(groupClause)
    THEN IF ~found
         THEN [err |-> "time_bucket function missing from GROUP BY clause for continuous aggregate query",
               tbinfo |-> tbinfo]
         ELSE [err |-> NoErr, tbinfo |-> tbinfo]
    ELSE LET sgc == groupClause[i]
             tle == get_sortgroupclause_tle(sgc, targetList)
             fe == tle.expr
         IN IF fe.tag = "FuncExpr" /\ fe.funcid \in get_timebucketfnoid
            THEN IF found
                 THEN [err |-> "multiple time_bucket functions not permitted in continuous aggregate query",
                       tbinfo |-> tbinfo]
                 ELSE LET e == TimebucketCandidateErr(tbinfo, fe)
                      IN IF e # NoErr
                         THEN [err |-> e, tbinfo |-> tbinfo]
                         ELSE caggtimebucket_loop(
                                  [tbinfo EXCEPT
                                      !.sortref = sgc.tleSortGroupRef,
                                      !.bucket_width = ts_interval_value_to_internal(
                                          fe.args[1].constvalue, fe.args[1].consttype)],
                                  groupClause, targetList, i + 1, TRUE)
            ELSE caggtimebucket_loop(tbinfo, groupClause, targetList, i + 1, found)

caggtimebucket_validate(tbinfo, groupClause, targetList) ==
    caggtimebucket_loop(tbinfo, groupClause, targetList, 1, FALSE)

(* The checks cagg_agg_validate makes on one Aggref node *)
AggrefErr(agg) ==
    LET aggform == pg_aggregate[agg.aggfnoid]
    IN IF agg.aggorder \/ agg.aggdistinct \/ agg.aggfilter
       THEN "aggregates with FILTER / DISTINCT / ORDER BY are not supported for continuous aggregate query"
       ELSE IF aggform.aggkind # "n"
       THEN "ordered set/hypothetical aggregates are not supported by continuous aggregate query"
       ELSE IF aggform.aggcombinefn = InvalidOid
               \/ (aggform.aggtranstype = INTERNALOID
                   /\ aggform.aggdeserialfn = InvalidOid)
       THEN "aggregates which are not parallelizable are not supported by continuous aggregate query"
       ELSE NoErr

(* First error of a list of results, NoErr when there is none *)
RECURSIVE FirstErr(_)
FirstErr(errs) ==
    IF errs = <<>> THEN NoErr
    ELSE IF Head(errs) # NoErr THEN Head(errs) ELSE FirstErr(Tail(errs))

(* The walker: an Aggref is checked and not descended into, any other node  *)
(* is walked by expression_tree_walker.                                     *)
RECURSIVE cagg_agg_validate(_)
cagg_agg_validate_walk(node) ==
    IF node.tag = "TargetEntry" THEN cagg_agg_validate(node.expr)
    ELSE IF HasArgs(node)
    THEN FirstErr([i \in 1..Len(node.args) |-> cagg_agg_validate(node.args[i])])
    ELSE NoErr

cagg_agg_validate(node) ==
    IF node.tag = "NULL" THEN NoErr
    ELSE IF node.tag = "Aggref" THEN AggrefErr(node)
    ELSE cagg_agg_validate_walk(node)

(* expression_tree_walker(node, cagg_agg_validate, NULL) on a List and on a *)
(* single node: the walker is called on the sub-nodes, not on node itself.  *)
ValidateTargetListAggs(targetList) ==
    FirstErr([i \in 1..Len(targetList) |-> cagg_agg_validate(targetList[i])])

ValidateHavingAggs(havingQual) ==
    IF havingQual.tag = "NULL" THEN NoErr ELSE cagg_agg_validate_walk(havingQual)

has_row_security(relid) ==
    pg_class[relid].relrowsecurity \/ pg_class[relid].relforcerowsecurity

(* A faulty variant of the second check: LIMIT and OFFSET are not tested *)
RejectedFeatures_NoLimit ==
    {"hasWindowFuncs", "hasSubLinks", "hasDistinctOn", "hasRecursive",
     "hasModifyingCTE", "hasForUpdate", "hasRowSecurity", "hasTargetSRFs",
     "cteList", "groupingSets", "distinctClause", "setOperations", "sortClause"}

(* The Query fields the second check of cagg_validate_query tests; a query  *)
(* carries in feat the names of those that are true / non-NULL.             *)
RejectedFeatures ==
    {"hasWindowFuncs", "hasSubLinks", "hasDistinctOn", "hasRecursive",
     "hasModifyingCTE", "hasForUpdate", "hasRowSecurity", "hasTargetSRFs",
     "cteList", "groupingSets", "distinctClause", "setOperations", "limitOffset",
     "limitCount", "sortClause"}

(* linitial_node(RangeTblRef, fromlist) followed by list_nth(rtable,        *)
(* rtindex - 1).  For a JoinExpr the cast is wrong: an assert-enabled build *)
(* traps, any other build reads JoinExpr.jointype where rtindex would be    *)
(* (JOIN_INNER 0, JOIN_LEFT 1, JOIN_FULL 2, JOIN_RIGHT 3) and list_nth      *)
(* returns the head cell for a negative index.                              *)
JoinTypeCode(jointype) ==
    CASE jointype = "JOIN_INNER" -> 0
      [] jointype = "JOIN_LEFT" -> 1
      [] jointype = "JOIN_FULL" -> 2
      [] jointype = "JOIN_RIGHT" -> 3

FromListRteIndex(q) ==
    LET ref == q.jointree.fromlist[1]
    IN IF ref.tag = "RangeTblRef" THEN ref.rtindex
       ELSE IF JoinTypeCode(ref.jointype) - 1 <= 0 THEN 1
       ELSE JoinTypeCode(ref.jointype)

SourceErr(rte) ==
    IF rte.relkind # "r" \/ rte.tablesample \/ rte.inh = FALSE
    THEN "invalid SELECT query for continuous aggregate"
    ELSE IF ts_hypertable_cache_get_entry(rte.relid) = NullNode
    THEN "can create continuous aggregate only on hypertables"
    ELSE IF has_row_security(rte.relid)
    THEN "continuous aggregate query cannot be created on table with row security"
    ELSE NoErr

NoTbInfo == caggtimebucketinfo_init(0, InvalidOid, 0, 0)

(* cagg_validate_query.  assertsEnabled says whether the build checks       *)
(* Assert(); it only matters for the cast of a JoinExpr.                    *)
cagg_validate_query(q, assertsEnabled) ==
    IF q.commandType # "CMD_SELECT"
    THEN [err |-> "only SELECT query permitted for continuous aggregate query",
          ret |-> NoTbInfo]
    ELSE IF q.feat \cap RejectedFeatures # {}
    THEN [err |-> "invalid SELECT query for continuous aggregate", ret |-> NoTbInfo]
    ELSE IF q.groupClause = <<>>
    THEN [err |-> "SELECT query for continuous aggregate should have at least 1 aggregate function and a GROUP BY clause with time_bucket",
          ret |-> NoTbInfo]
    ELSE IF ValidateTargetListAggs(q.targetList) # NoErr
    THEN [err |-> ValidateTargetListAggs(q.targetList), ret |-> NoTbInfo]
    ELSE IF ValidateHavingAggs(q.havingQual) # NoErr
    THEN [err |-> ValidateHavingAggs(q.havingQual), ret |-> NoTbInfo]
    ELSE IF Len(q.jointree.fromlist) # 1
    THEN [err |-> "only 1 hypertable is permitted in SELECT query permitted for continuous aggregate",
          ret |-> NoTbInfo]
    ELSE IF q.jointree.fromlist[1].tag # "RangeTblRef" /\ assertsEnabled
    THEN [err |-> "TRAP: FailedAssertion castNode(RangeTblRef)", ret |-> NoTbInfo]
    ELSE LET rte == q.rtable[FromListRteIndex(q)]
         IN IF SourceErr(rte) # NoErr
            THEN [err |-> SourceErr(rte), ret |-> NoTbInfo]
            ELSE LET ht == ts_hypertable_cache_get_entry(rte.relid)
                     r == caggtimebucket_validate(
                              caggtimebucketinfo_init(ht.id, ht.main_table_relid,
                                                      ht.column_attno,
                                                      ht.interval_length),
                              q.groupClause, q.targetList)
                 IN [err |-> r.err, ret |-> r.tbinfo]


----------------------------------------------------------------------------
(* Materialization schema builder *)

(* optimizer/clauses.c: does the expression call a function that is not    *)
(* immutable?  Operators and the aggregates of pg_aggregate are immutable.  *)
RECURSIVE contain_mutable_functions(_)
contain_mutable_functions(node) ==
    CASE node.tag = "FuncExpr" ->
            pg_proc[node.funcid].provolatile # "i"
            \/ \E i \in 1..Len(node.args) : contain_mutable_functions(node.args[i])
      [] node.tag \in {"Aggref", "OpExpr"} ->
            \E i \in 1..Len(node.args) : contain_mutable_functions(node.args[i])
      [] node.tag = "TargetEntry" -> contain_mutable_functions(node.expr)
      [] OTHER -> FALSE

PRINT_MATCOLNAME(colno) == "tscol" \o ToString(colno)

get_finalizefnoid == "finalize_agg(text,name,name,bytea,anyelement)"

get_partialize_funcexpr(agg) ==
    makeFuncExpr("partialize_agg(anyelement)", BYTEAOID, <<agg>>, InvalidOid)

is_timebucket_expr(funcid) == funcid \in get_timebucketfnoid

mattablecolumninfo_init(collist, tlist, grouplist) ==
    [matcollist |-> collist, partial_seltlist |-> tlist,
     partial_grouplist |-> grouplist, matpartcolno |-> -1,
     matpartcolname |-> NoName]

(* mattablecolumninfo_addentry(out, input).  Returns the builder after the  *)
(* call, the Var for the new column and the input node as the call leaves   *)
(* it: the source stores the reserved name into the caller's TargetEntry    *)
(* when its expression is a time_bucket call.                               *)
(* A faulty variant of the Aggref case: the column definition is appended,  *)
(* the partial-projection entry is not.                                     *)
AddEntryAggref_ColumnOnly(out, input, matcolno) ==
    [err |-> NoErr,
     out |-> [out EXCEPT !.matcollist =
                  Append(@, makeColumnDef(PRINT_MATCOLNAME(matcolno), BYTEAOID, -1,
                                          InvalidOid))],
     var |-> makeVar(1, matcolno, BYTEAOID, -1, InvalidOid),
     input |-> input]

AddEntryAggref(out, input, matcolno) ==
    LET fexpr == get_partialize_funcexpr(input)
        colname == PRINT_MATCOLNAME(matcolno)
        col == makeColumnDef(colname, BYTEAOID, -1, InvalidOid)
        part_te == makeTargetEntry(fexpr, matcolno, colname, FALSE)
    IN [err |-> NoErr,
        out |-> [out EXCEPT !.matcollist = Append(@, col),
                            !.partial_seltlist = Append(@, part_te)],
        var |-> makeVar(1, matcolno, BYTEAOID, -1, InvalidOid),
        input |-> input]

(* A faulty variant of the TargetEntry case: an entry's own name wins over   *)
(* the reserved name of the time_bucket column.                             *)
AddEntryTargetEntry_AliasFirst(out, input, matcolno) ==
    LET chk == input.expr.tag = "FuncExpr" /\ is_timebucket_expr(input.expr.funcid)
        colname == IF input.resname # NoName THEN input.resname
                   ELSE IF chk THEN MATPARTCOLNM
                   ELSE PRINT_MATCOLNAME(matcolno)
        col == makeColumnDef(colname, exprType(input.expr), exprTypmod(input.expr),
                             exprCollation(input.expr))
    IN [err |-> NoErr,
        out |-> [out EXCEPT !.matcollist = Append(@, col),
                            !.partial_seltlist = Append(@, input),
                            !.matpartcolno = IF chk THEN matcolno - 1 ELSE @,
                            !.matpartcolname = IF chk THEN colname ELSE @],
        var |-> makeVar(1, matcolno, exprType(input.expr), exprTypmod(input.expr),
                        exprCollation(input.expr)),
        input |-> input]

AddEntryTargetEntry(out, input, matcolno) ==
    LET chk == input.expr.tag = "FuncExpr" /\ is_timebucket_expr(input.expr.funcid)
        colname == IF chk THEN MATPARTCOLNM
                   ELSE IF input.resname # NoName THEN input.resname
                   ELSE PRINT_MATCOLNAME(matcolno)
        tle == IF chk THEN [input EXCEPT !.resname = colname] ELSE input
        coltype == exprType(tle.expr)
        coltypmod == exprTypmod(tle.expr)
        colcollation == exprCollation(tle.expr)
        col == makeColumnDef(colname, coltype, coltypmod, colcollation)
        part_te == tle
    IN [err |-> NoErr,
        out |-> [out EXCEPT !.matcollist = Append(@, col),
                            !.partial_seltlist = Append(@, part_te),
                            !.matpartcolno = IF chk THEN matcolno - 1 ELSE @,
                            !.matpartcolname = IF chk THEN colname ELSE @],
        var |-> makeVar(1, matcolno, coltype, coltypmod, colcollation),
        input |-> tle]

(* A faulty variant: the entry is appended before the input is checked for  *)
(* mutable functions.                                                       *)
mattablecolumninfo_addentry_LateCheck(out, input) ==
    LET matcolno == Len(out.matcollist) + 1
        r == IF input.tag = "Aggref" THEN AddEntryAggref(out, input, matcolno)
             ELSE IF input.tag = "TargetEntry"
             THEN AddEntryTargetEntry(out, input, matcolno)
             ELSE [err |-> "invalid node type", out |-> out, var |-> NullNode,
                   input |-> input]
    IN IF r.err = NoErr /\ contain_mutable_functions(input)
       THEN [r EXCEPT !.err = "only immutable functions are supported for continuous aggregate query",
                      !.var = NullNode]
       ELSE r

mattablecolumninfo_addentry(out, input) ==
    LET matcolno == Len(out.matcollist) + 1
    IN IF contain_mutable_functions(input)
       THEN [err |-> "only immutable functions are supported for continuous aggregate query",
             out |-> out, var |-> NullNode, input |-> input]
       ELSE IF input.tag = "Aggref" THEN AddEntryAggref(out, input, matcolno)
       ELSE IF input.tag = "TargetEntry" THEN AddEntryTargetEntry(out, input, matcolno)
       ELSE [err |-> "invalid node type", out |-> out, var |-> NullNode,
             input |-> input]

makeSortGroupClause(ref) ==
    [tleSortGroupRef |-> ref, eqop |-> "=", sortop |-> "<", nulls_first |-> FALSE,
     hashable |-> TRUE]

(* Largest ressortgroupref of a target list, 0 for none *)
RECURSIVE MaxSortGroupRef(_)
MaxSortGroupRef(tlist) ==
    IF tlist = <<>> THEN 0
    ELSE LET m == MaxSortGroupRef(Tail(tlist))
         IN IF Head(tlist).ressortgroupref > m THEN Head(tlist).ressortgroupref ELSE m

(* A faulty variant of mattablecolumninfo_addinternal: the chunk column's    *)
(* entry always gets group reference 1                                      *)
mattablecolumninfo_addinternal_FixedRef(matcolinfo, usertbl_rte, usertbl_htid) ==
    LET colno == Len(matcolinfo.partial_seltlist) + 1
        vexpr == makeVar(1, colno, INT4OID, -1, InvalidOid)
        col == makeColumnDef(MATCHUNKCOLNM, exprType(vexpr), exprTypmod(vexpr),
                             exprCollation(vexpr))
        chunk_fnexpr == makeFuncExpr("chunk_for_tuple(int4,anyelement)", INT4OID,
                                     <<makeConst(INT4OID, -1, InvalidOid,
                                                 ToString(usertbl_htid), FALSE),
                                       makeVar(1, 0, usertbl_rte.relid, -1, InvalidOid)>>,
                                     InvalidOid)
        chunk_te == [makeTargetEntry(chunk_fnexpr, colno, MATCHUNKCOLNM, FALSE)
                        EXCEPT !.ressortgroupref = 1]
    IN [matcolinfo EXCEPT !.matcollist = Append(@, col),
                          !.partial_seltlist = Append(@, chunk_te),
                          !.partial_grouplist =
                              Append(@, makeSortGroupClause(chunk_te.ressortgroupref))]

mattablecolumninfo_addinternal_First(matcolinfo, usertbl_rte, usertbl_htid) ==
    LET colno == Len(matcolinfo.partial_seltlist) + 1
        vexpr == makeVar(1, colno, INT4OID, -1, InvalidOid)
        col == makeColumnDef(MATCHUNKCOLNM, exprType(vexpr), exprTypmod(vexpr),
                             exprCollation(vexpr))
        chunk_fnexpr == makeFuncExpr("chunk_for_tuple(int4,anyelement)", INT4OID,
                                     <<makeConst(INT4OID, -1, InvalidOid,
                                                 ToString(usertbl_htid), FALSE),
                                       makeVar(1, 0, usertbl_rte.relid, -1, InvalidOid)>>,
                                     InvalidOid)
        chunk_te == [makeTargetEntry(chunk_fnexpr, colno, MATCHUNKCOLNM, FALSE)
                        EXCEPT !.ressortgroupref =
                                   MaxSortGroupRef(matcolinfo.partial_seltlist) + 1]
    IN [matcolinfo EXCEPT !.matcollist = <<col>> \o @,
                          !.partial_seltlist = <<chunk_te>> \o @,
                          !.partial_grouplist =
                              Append(@, makeSortGroupClause(chunk_te.ressortgroupref))]

mattablecolumninfo_addinternal(matcolinfo, usertbl_rte, usertbl_htid) ==
    LET colno == Len(matcolinfo.partial_seltlist) + 1
        vexpr == makeVar(1, colno, INT4OID, -1, InvalidOid)
        col == makeColumnDef(MATCHUNKCOLNM, exprType(vexpr), exprTypmod(vexpr),
                             exprCollation(vexpr))
        chunkfn_arg1 == makeConst(INT4OID, -1, InvalidOid, ToString(usertbl_htid), FALSE)
        chunkfn_arg2 == makeVar(1, 0, usertbl_rte.relid, -1, InvalidOid)
        chunk_fnexpr == makeFuncExpr("chunk_for_tuple(int4,anyelement)", INT4OID,
                                     <<chunkfn_arg1, chunkfn_arg2>>, InvalidOid)
        chunk_te0 == makeTargetEntry(chunk_fnexpr, colno, MATCHUNKCOLNM, FALSE)
        maxRef == MaxSortGroupRef(Append(matcolinfo.partial_seltlist, chunk_te0))
        chunk_te == [chunk_te0 EXCEPT !.ressortgroupref = maxRef + 1]
        grpcl == makeSortGroupClause(chunk_te.ressortgroupref)
    IN [matcolinfo EXCEPT !.matcollist = Append(@, col),
                          !.partial_seltlist = Append(@, chunk_te),
                          !.partial_grouplist = Append(@, grpcl)]

----------------------------------------------------------------------------
(* Aggregate splitter *)

(* pg_collation rows: name and schema of a collation *)
pg_collation ==
    [c \in {"default", "C"} |-> [collname |-> c, collnamespace |-> "pg_catalog"]]

(* A faulty variant of get_finalize_aggref: the finalize call is typed as    *)
(* the column it reads (bytea, no collation), not as the aggregate.         *)
get_finalize_aggref_ColumnTyped(inp, inpcol) ==
    [tag |-> "Aggref", aggfnoid |-> get_finalizefnoid, aggtype |-> BYTEAOID,
     aggcollid |-> InvalidOid, inputcollid |-> inp.inputcollid,
     args |-> AggArgs(<<makeConst(TEXTOID, -1, DEFAULT_COLLATION_OID, inp.aggfnoid,
                                  FALSE),
                        makeNullConst(NAMEOID, -1, InvalidOid),
                        makeNullConst(NAMEOID, -1, InvalidOid),
                        inpcol,
                        makeNullConst(inp.aggtype, -1, inp.aggcollid)>>),
     aggorder |-> FALSE, aggdistinct |-> FALSE, aggfilter |-> FALSE]

get_finalize_aggref(inp, inpcol) ==
    LET valid == inp.inputcollid # InvalidOid
        aggfn1arg == makeConst(TEXTOID, -1, DEFAULT_COLLATION_OID, inp.aggfnoid, FALSE)
        oid2arg == makeConst(NAMEOID, -1, InvalidOid,
                             IF valid THEN pg_collation[inp.inputcollid].collnamespace
                             ELSE "0",
                             ~valid)
        oid3arg == makeConst(NAMEOID, -1, InvalidOid,
                             IF valid THEN pg_collation[inp.inputcollid].collname
                             ELSE "0",
                             ~valid)
        nullarg == makeNullConst(inp.aggtype, -1, inp.aggcollid)
    IN [tag |-> "Aggref", aggfnoid |-> get_finalizefnoid, aggtype |-> inp.aggtype,
        aggcollid |-> inp.aggcollid, inputcollid |-> inp.inputcollid,
        args |-> AggArgs(<<aggfn1arg, oid2arg, oid3arg, inpcol, nullarg>>),
        aggorder |-> FALSE, aggdistinct |-> FALSE, aggfilter |-> FALSE]

(* add_aggregate_partialize_mutator(node, cxt) returns the new node and the *)
(* context after the call; cxt.err records an ereport of the schema builder *)
(* (the C code leaves the walk by longjmp at that point).                   *)
RECURSIVE add_aggregate_partialize_mutator(_, _)
RECURSIVE AggPartMutateList(_, _, _)

AggPartMutateList(nodes, i, cxt) ==
    IF i > Len(nodes) THEN [nodes |-> <<>>, cxt |-> cxt]
    ELSE LET r == add_aggregate_partialize_mutator(nodes[i], cxt)
             rest == AggPartMutateList(nodes, i + 1, r.cxt)
         IN [nodes |-> <<r.node>> \o rest.nodes, cxt |-> rest.cxt]

(* expression_tree_mutator(node, add_aggregate_partialize_mutator, cxt):    *)
(* node is copied and the mutator is applied to its sub-nodes.              *)
AggPartTreeMutator(node, cxt) ==
    IF node.tag = "TargetEntry"
    THEN LET r == add_aggregate_partialize_mutator(node.expr, cxt)
         IN [node |-> [node EXCEPT !.expr = r.node], cxt |-> r.cxt]
    ELSE IF HasArgs(node)
    THEN LET r == AggPartMutateList(node.args, 1, cxt)
         IN [node |-> [node EXCEPT !.args = r.nodes], cxt |-> r.cxt]
    ELSE [node |-> node, cxt |-> cxt]

(* The Aggref branch once the schema builder has returned a *)
AggPartAggref(node, cxt, a) ==
    IF a.err # NoErr
    THEN [node |-> node, cxt |-> [cxt EXCEPT !.err = a.err]]
    ELSE [node |-> get_finalize_aggref(node, a.var),
          cxt |-> [cxt EXCEPT !.mattblinfo = a.out, !.addcol = TRUE]]

add_aggregate_partialize_mutator(node, cxt) ==
    IF node.tag = "NULL" \/ cxt.err # NoErr THEN [node |-> node, cxt |-> cxt]
    ELSE IF node.tag = "Aggref"
    THEN IF cxt.ignore_aggoid = node.aggfnoid
         THEN [node |-> node, cxt |-> cxt]
         ELSE AggPartAggref(node, cxt,
                            mattablecolumninfo_addentry(cxt.mattblinfo, node))
    ELSE AggPartTreeMutator(node, cxt)

(* replace_having_qual_mutator(node, cxt) with cxt = (old, new) *)
RECURSIVE replace_having_qual_mutator(_, _, _)
HavingTreeMutator(node, old, new) ==
    IF node.tag = "NULL" THEN node
    ELSE IF node.tag = "TargetEntry"
    THEN [node EXCEPT !.expr = replace_having_qual_mutator(@, old, new)]
    ELSE IF HasArgs(node)
    THEN [node EXCEPT !.args = [i \in 1..Len(@) |->
                                    replace_having_qual_mutator(@[i], old, new)]]
    ELSE node

replace_having_qual_mutator(node, old, new) ==
    IF node.tag = "NULL" THEN node
    ELSE IF node = old.expr THEN new.expr
    ELSE HavingTreeMutator(node, old, new)

RECURSIVE ReplaceLoop(_, _, _, _)
ReplaceLoop(having, origtlist, modtlist, i) ==
    IF i > Len(origtlist) \/ i > Len(modtlist) THEN having
    ELSE ReplaceLoop(HavingTreeMutator(having, origtlist[i], modtlist[i]),
                     origtlist, modtlist, i + 1)

replace_targetentry_in_havingqual(origquery, newtlist) ==
    ReplaceLoop(origquery.havingQual, origquery.targetList, newtlist, 1)


NoFinalizeQueryInfo ==
    [final_seltlist |-> <<>>, final_seltlist_aliases |-> <<>>,
     final_havingqual |-> NullNode, final_userquery |-> NullNode]

(* A faulty variant of the end of an iteration: a non-visible entry is not  *)
(* carried over to final_seltlist.                                          *)
FinalizeTargetAppend_VisibleOnly(acc, i, tle, modte, cxt) ==
    IF cxt.err # NoErr THEN [acc EXCEPT !.cxt = cxt]
    ELSE [targetList |-> [acc.targetList EXCEPT ![i] = tle],
          cxt |-> cxt,
          final_seltlist |-> IF modte.resjunk THEN acc.final_seltlist
                             ELSE Append(acc.final_seltlist, modte)]

(* The end of one iteration of the target list loop: resorigcol follows a   *)
(* Var expression, and modte joins final_seltlist.                          *)
FinalizeTargetAppend(acc, i, tle, modte, cxt) ==
    IF cxt.err # NoErr THEN [acc EXCEPT !.cxt = cxt]
    ELSE [targetList |-> [acc.targetList EXCEPT ![i] = tle],
          cxt |-> cxt,
          final_seltlist |->
              Append(acc.final_seltlist,
                     IF modte.expr.tag = "Var"
                     THEN [modte EXCEPT !.resorigcol = modte.expr.varattno]
                     ELSE modte)]

(* The direct call of the schema builder for an entry without aggregates;   *)
(* a is what the call returned.                                             *)
FinalizeTargetDirect(acc, i, r, a) ==
    IF a.err # NoErr
    THEN FinalizeTargetAppend(acc, i, acc.targetList[i], r.node,
                              [r.cxt EXCEPT !.err = a.err])
    ELSE FinalizeTargetAppend(acc, i, a.input, [r.node EXCEPT !.expr = a.var],
                              [r.cxt EXCEPT !.mattblinfo = a.out])

(* One iteration of the loop after the mutator has returned r for entry i *)
FinalizeTargetEntry(acc, i, r) ==
    IF r.cxt.err = NoErr /\ r.cxt.addcol = FALSE
       /\ (acc.targetList[i].resjunk = FALSE \/ acc.targetList[i].ressortgroupref > 0)
    THEN FinalizeTargetDirect(acc, i, r,
                              mattablecolumninfo_addentry(r.cxt.mattblinfo,
                                                          acc.targetList[i]))
    ELSE FinalizeTargetAppend(acc, i, acc.targetList[i], r.node, r.cxt)

(* The target list loop of finalizequery_init.  acc.targetList is           *)
(* orig_query->targetList, which the direct call of the schema builder is   *)
(* handed entry i of.                                                       *)
RECURSIVE FinalizeTargetLoop(_, _)
FinalizeTargetLoop(acc, i) ==
    IF i > Len(acc.targetList) \/ acc.cxt.err # NoErr THEN acc
    ELSE FinalizeTargetLoop(
             FinalizeTargetEntry(acc, i,
                                 AggPartTreeMutator(acc.targetList[i],
                                                    [acc.cxt EXCEPT !.addcol = FALSE])),
             i + 1)

(* The HAVING part of finalizequery_init; l is the state after the loop *)
FinalizeHaving(final_userquery, l) ==
    AggPartTreeMutator(replace_targetentry_in_havingqual(final_userquery,
                                                         l.final_seltlist),
                       [l.cxt EXCEPT !.addcol = FALSE,
                                     !.ignore_aggoid = get_finalizefnoid])

(* What finalizequery_init leaves behind: inp, the builder and orig_query *)
FinalizeQueryResult(final_userquery, tlist_aliases, l, h) ==
    [err |-> h.cxt.err,
     inp |-> IF h.cxt.err # NoErr THEN NoFinalizeQueryInfo
             ELSE [final_seltlist |-> l.final_seltlist,
                   final_seltlist_aliases |-> tlist_aliases,
                   final_havingqual |-> h.node,
                   final_userquery |-> final_userquery],
     mattblinfo |-> h.cxt.mattblinfo,
     orig_query |-> [final_userquery EXCEPT !.targetList = l.targetList]]

FinalizeQueryAfterLoop(final_userquery, tlist_aliases, l) ==
    FinalizeQueryResult(final_userquery, tlist_aliases, l,
                        IF l.cxt.err # NoErr THEN [node |-> NullNode, cxt |-> l.cxt]
                        ELSE FinalizeHaving(final_userquery, l))

(* finalizequery_init(inp, orig_query, tlist_aliases, mattblinfo).  Returns *)
(* inp, the builder and orig_query as the call leaves them.                 *)
finalizequery_init(orig_query, tlist_aliases, matinfo) ==
    FinalizeQueryAfterLoop(
        orig_query, tlist_aliases,
        FinalizeTargetLoop([targetList |-> orig_query.targetList,
                            cxt |-> [mattblinfo |-> matinfo, addcol |-> FALSE,
                                     ignore_aggoid |-> InvalidOid, err |-> NoErr],
                            final_seltlist |-> <<>>],
                           1))

----------------------------------------------------------------------------
(* Query assembler *)

(* The alias loop of finalizequery_get_select_query: k is the position of   *)
RECURSIVE AliasLoop_NoSkip(_, _, _, _)
AliasLoop_NoSkip(tlist, i, aliases, k) ==
    IF i > Len(tlist) \/ k > Len(aliases) THEN [tlist |-> tlist, k |-> k]
    ELSE AliasLoop_NoSkip([tlist EXCEPT ![i].resname = aliases[k]], i + 1, aliases,
                          k + 1)

(* alist_item in the alias list, Len + 1 once it is NULL.                   *)
RECURSIVE AliasLoop(_, _, _, _)
AliasLoop(tlist, i, aliases, k) ==
    IF i > Len(tlist) \/ k > Len(aliases) THEN [tlist |-> tlist, k |-> k]
    ELSE IF tlist[i].resjunk THEN AliasLoop(tlist, i + 1, aliases, k)
    ELSE AliasLoop([tlist EXCEPT ![i].resname = aliases[k]], i + 1, aliases, k + 1)

(* CAGG_MAKEQUERY and the assignments that follow it *)
MakeSelectQuery(rtable, jointree, targetList, groupClause, sortClause, havingQual) ==
    [commandType |-> "CMD_SELECT", feat |-> sortClause, rtable |-> rtable,
     jointree |-> jointree, targetList |-> targetList, groupClause |-> groupClause,
     havingQual |-> havingQual]

finalizequery_get_select_query(inp, matcollist, mattbladdress) ==
    LET rte == [inp.final_userquery.rtable[1] EXCEPT
                    !.relid = mattbladdress, !.rtekind = "RTE_RELATION",
                    !.relkind = "r", !.tablesample = FALSE,
                    !.colnames = [i \in 1..Len(matcollist) |-> matcollist[i].colname]]
        rtable == [inp.final_userquery.rtable EXCEPT ![1] = rte]
        tl1 == [i \in 1..Len(inp.final_seltlist) |->
                   LET tle == inp.final_seltlist[i]
                   IN IF tle.expr.tag = "Var"
                      THEN [tle EXCEPT !.resorigtbl = rte.relid,
                                       !.resorigcol = tle.expr.varattno]
                      ELSE tle]
        al == IF inp.final_seltlist_aliases # <<>>
              THEN AliasLoop(tl1, 1, inp.final_seltlist_aliases, 1)
              ELSE [tlist |-> tl1, k |-> 1]
        fromexpr == [inp.final_userquery.jointree EXCEPT !.quals = NullNode]
    IN IF inp.final_seltlist_aliases # <<>> /\ al.k <= Len(inp.final_seltlist_aliases)
       THEN [err |-> "too many column names were specified", query |-> NullNode]
       ELSE [err |-> NoErr,
             query |-> MakeSelectQuery(rtable, fromexpr, al.tlist,
                                       inp.final_userquery.groupClause,
                                       inp.final_userquery.feat \cap {"sortClause"},
                                       inp.final_havingqual)]

(* A faulty variant of mattablecolumninfo_get_partial_select_query: the      *)
(* HAVING predicate of the user's query is kept.                            *)
mattablecolumninfo_get_partial_select_query_KeepHaving(matinfo, userview_query) ==
    MakeSelectQuery(userview_query.rtable, userview_query.jointree,
                    matinfo.partial_seltlist, matinfo.partial_grouplist, {},
                    userview_query.havingQual)

mattablecolumninfo_get_partial_select_query(matinfo, userview_query) ==
    MakeSelectQuery(userview_query.rtable, userview_query.jointree,
                    matinfo.partial_seltlist, matinfo.partial_grouplist, {}, NullNode)


----------------------------------------------------------------------------
(* The analyzed queries handed to the compiler.  The hypertable events has  *)
(* the columns a int4, b int4, ts int8 (its time dimension), c text and     *)
(* f bool.  parse_analyze numbers the target entries from 1, names the      *)
(* visible ones, and adds a non-visible entry for every GROUP BY expression *)
(* that is not an expression of the select list.                            *)

MaxTargets == 3
MaxFeatures == 1
MaxBuilderCalls == 3

ColA == makeVar(1, 1, INT4OID, -1, InvalidOid)
ColB == makeVar(1, 2, INT4OID, -1, InvalidOid)
ColTs == makeVar(1, HtPartColNo, INT8OID, -1, InvalidOid)
ColC == makeVar(1, 4, TEXTOID, -1, DEFAULT_COLLATION_OID)
ColF == makeVar(1, 5, BOOLOID, -1, InvalidOid)

IntConst(lit) == makeConst(INT4OID, -1, InvalidOid, lit, FALSE)
WidthConst(lit) == makeConst(INT8OID, -1, InvalidOid, lit, FALSE)

MinB == makeAggref("min(int4)", INT4OID, InvalidOid, InvalidOid, <<ColB>>)
MaxA == makeAggref("max(int4)", INT4OID, InvalidOid, InvalidOid, <<ColA>>)
MaxC == makeAggref("max(text)", TEXTOID, DEFAULT_COLLATION_OID,
                   DEFAULT_COLLATION_OID, <<ColC>>)
BoolAndF == makeAggref("bool_and(bool)", BOOLOID, InvalidOid, InvalidOid, <<ColF>>)
MinBPlusMaxA == makeOpExpr("+", INT4OID, <<MinB, MaxA>>)
APlusMinB == makeOpExpr("+", INT4OID, <<ColA, MinB>>)
Bucket(width) ==
    makeFuncExpr("time_bucket(int8,int8)", INT8OID, <<WidthConst(width), ColTs>>,
                 InvalidOid)
Gt10(e) == makeOpExpr(">", BOOLOID, <<e, IntConst("10")>>)

(* FigureColname: the name parse analysis gives a visible entry *)
FigureColname(e) ==
    CASE e.tag = "Var" ->
            (CASE e.varattno = 1 -> "a" [] e.varattno = 2 -> "b"
               [] e.varattno = 3 -> "ts" [] e.varattno = 4 -> "c"
               [] OTHER -> "f")
      [] e.tag = "Aggref" ->
            (CASE e.aggfnoid \in {"min(int4)"} -> "min"
               [] e.aggfnoid \in {"max(int4)", "max(text)"} -> "max"
               [] e.aggfnoid = "bool_and(bool)" -> "bool_and"
               [] OTHER -> "agg")
      [] e.tag = "FuncExpr" -> pg_proc[e.funcid].proname
      [] OTHER -> "?column?"

(* The Vars of an expression that stand outside every aggregate call *)
RECURSIVE UngroupedVars(_)
UngroupedVars(e) ==
    CASE e.tag = "Var" -> {e}
      [] e.tag \in {"FuncExpr", "OpExpr"} ->
            UNION {UngroupedVars(e.args[i]) : i \in 1..Len(e.args)}
      [] OTHER -> {}

RECURSIVE HasAggref(_)
HasAggref(e) ==
    CASE e.tag = "Aggref" -> TRUE
      [] e.tag \in {"FuncExpr", "OpExpr"} -> \E i \in 1..Len(e.args) : HasAggref(e.args[i])
      [] OTHER -> FALSE

(* transformGroupClause: each GROUP BY expression is matched against the    *)
(* target list built so far (findTargetlistEntry) or appended as resjunk.   *)
RECURSIVE AddGroupItems(_, _, _)
AddGroupItems(tlist, groupClause, exprs) ==
    IF exprs = <<>> THEN [targetList |-> tlist, groupClause |-> groupClause]
    ELSE LET e == Head(exprs)
             hits == {i \in 1..Len(tlist) : tlist[i].expr = e}
             nextRef == MaxSortGroupRef(tlist) + 1
         IN IF hits = {}
            THEN AddGroupItems(
                     Append(tlist, [makeTargetEntry(e, Len(tlist) + 1, NoName, TRUE)
                                        EXCEPT !.ressortgroupref = nextRef]),
                     Append(groupClause, makeSortGroupClause(nextRef)),
                     Tail(exprs))
            ELSE LET i == CHOOSE i \in hits : \A j \in hits : i <= j
                 IN IF tlist[i].ressortgroupref # 0
                    THEN AddGroupItems(tlist, groupClause, Tail(exprs))
                    ELSE AddGroupItems(
                             [tlist EXCEPT ![i].ressortgroupref = nextRef],
                             Append(groupClause, makeSortGroupClause(nextRef)),
                             Tail(exprs))

(* Range table entries and jointrees *)
RelRte(relid, tablesample, inh) ==
    [rtekind |-> "RTE_RELATION", relid |-> relid, relkind |-> pg_class[relid].relkind,
     tablesample |-> tablesample, inh |-> inh, colnames |-> <<>>]
SubqueryRte ==
    [rtekind |-> "RTE_SUBQUERY", relid |-> InvalidOid, relkind |-> "0",
     tablesample |-> FALSE, inh |-> FALSE, colnames |-> <<>>]
JoinRte ==
    [rtekind |-> "RTE_JOIN", relid |-> InvalidOid, relkind |-> "0",
     tablesample |-> FALSE, inh |-> FALSE, colnames |-> <<>>]
RangeTblRef(rtindex) == [tag |-> "RangeTblRef", rtindex |-> rtindex]
JoinExpr(jointype) == [tag |-> "JoinExpr", jointype |-> jointype]

Source(rtable, fromlist) == [rtable |-> rtable, fromlist |-> fromlist]
EventsSource == Source(<<RelRte("events", FALSE, TRUE)>>, <<RangeTblRef(1)>>)

(* SELECT visible... FROM source [WHERE quals] GROUP BY groupExprs HAVING having *)
MakeQuery(cmd, feat, visible, groupExprs, having, source, quals) ==
    LET tl0 == [i \in 1..Len(visible) |->
                   makeTargetEntry(visible[i], i, FigureColname(visible[i]), FALSE)]
        g == AddGroupItems(tl0, <<>>, groupExprs)
    IN [commandType |-> cmd, feat |-> feat, targetList |-> g.targetList,
        groupClause |-> g.groupClause, havingQual |-> having,
        rtable |-> source.rtable,
        jointree |-> [fromlist |-> source.fromlist, quals |-> quals]]

(* Select the elements of a sequence that satisfy Keep, in order *)
RECURSIVE Distinct(_)
Distinct(seq) ==
    IF seq = <<>> THEN <<>>
    ELSE LET r == Distinct(Tail(seq))
         IN <<Head(seq)>> \o SelectSeq(r, LAMBDA x : x # Head(seq))

SeqUnion(seq) == UNION {seq[i] : i \in 1..Len(seq)}

(* A set of Vars as a sequence ordered by column number *)
RECURSIVE VarsInOrder(_)
VarsInOrder(S) ==
    IF S = {} THEN <<>>
    ELSE LET v == CHOOSE v \in S : \A w \in S : v.varattno <= w.varattno
         IN <<v>> \o VarsInOrder(S \ {v})

(* A query whose GROUP BY names every column its select list and HAVING use *)
(* outside aggregates, then the bucket (when it is not in the select list). *)
SplitQuery(visible, having, bucketAt) ==
    LET bucket == Bucket("3600")
        vis == CASE bucketAt = "first" -> <<bucket>> \o visible
                 [] bucketAt = "last" -> Append(visible, bucket)
                 [] OTHER -> visible
        plain == SelectSeq(vis, LAMBDA e : ~HasAggref(e))
        needed == (UNION {UngroupedVars(vis[i]) : i \in 1..Len(vis)}
                   \cup (IF having.tag = "NULL" THEN {} ELSE UngroupedVars(having)))
                  \ {ColTs}
        groupExprs == Distinct(plain \o VarsInOrder(needed) \o <<bucket>>)
    IN MakeQuery("CMD_SELECT", {}, vis, groupExprs, having, EventsSource,
                 Gt10(ColA))


(* The select lists and HAVING predicates of the queries that are split *)
SplitAtoms == {ColA, ColB, MinB, MaxC, MinBPlusMaxA, APlusMinB}
SplitHavings == {NullNode, Gt10(MinB), Gt10(ColB), Gt10(MaxA), BoolAndF}
VisibleLists == UNION {[1..n -> SplitAtoms] : n \in 1..MaxTargets}

SplitQueries ==
    {SplitQuery(v, h, at) : v \in VisibleLists, h \in SplitHavings,
                            at \in {"junk", "first", "last"}}
    \cup {SplitQuery(<<ColA, BoolAndF>>, h, "junk") :
              h \in {BoolAndF, ColF, makeOpExpr("=", BOOLOID, <<BoolAndF, ColF>>)}}

(* Queries that vary what the validator looks at: command type, rejected   *)
(* features, source list, GROUP BY list.                                    *)
Bucket3 ==
    makeFuncExpr("time_bucket(int8,int8,int8)", INT8OID,
                 <<WidthConst("3600"), ColTs, WidthConst("1")>>, InvalidOid)
BucketOf(width, col) ==
    makeFuncExpr("time_bucket(int8,int8)", INT8OID, <<width, col>>, InvalidOid)
AbsTs == makeFuncExpr("abs(int8)", INT8OID, <<ColTs>>, InvalidOid)

GroupLists ==
    {<<ColA, Bucket("3600")>>, <<Bucket("10"), ColA>>, <<ColA, Bucket3>>,
     <<ColA, BucketOf(ColTs, ColTs)>>,
     <<ColA, BucketOf(WidthConst("3600"), makeOpExpr("+", INT8OID, <<ColTs, WidthConst("1")>>))>>,
     <<ColA, BucketOf(WidthConst("3600"), ColA)>>,
     <<ColA, Bucket("3600"), Bucket("10")>>,
     <<ColA, Bucket3, Bucket("10")>>,
     <<ColA>>, <<ColA, AbsTs>>, <<ColA, AbsTs, Bucket("2")>>, <<>>}

JoinTypes == {"JOIN_INNER", "JOIN_LEFT", "JOIN_FULL", "JOIN_RIGHT"}

Sources ==
    {Source(<<RelRte(r, FALSE, TRUE)>>, <<RangeTblRef(1)>>) :
         r \in {"events", "plain", "secure", "forced", "aview", "wide"}}
    \cup {Source(<<RelRte("events", TRUE, TRUE)>>, <<RangeTblRef(1)>>),
          Source(<<RelRte("events", FALSE, FALSE)>>, <<RangeTblRef(1)>>),
          Source(<<SubqueryRte>>, <<RangeTblRef(1)>>),
          Source(<<RelRte("events", FALSE, TRUE), RelRte("plain", FALSE, TRUE)>>,
                 <<RangeTblRef(1), RangeTblRef(2)>>)}
    \cup {Source(<<RelRte(r[1], FALSE, TRUE), RelRte(r[2], FALSE, TRUE), JoinRte>>,
                 <<JoinExpr(jt)>>) :
              r \in {<<"events", "plain">>, <<"plain", "events">>}, jt \in JoinTypes}

(* The flags and clause lists of a Query that the shape check reads *)
QueryFlags ==
    {"hasWindowFuncs", "hasSubLinks", "hasDistinctOn", "hasRecursive",
     "hasModifyingCTE", "hasForUpdate", "hasRowSecurity", "hasTargetSRFs",
     "cteList", "groupingSets", "distinctClause", "setOperations", "limitOffset",
     "limitCount", "sortClause"}

FeatureSets == {fs \in SUBSET QueryFlags : Cardinality(fs) <= MaxFeatures}

ShapeQueries ==
    {MakeQuery("CMD_SELECT", fs, IF g = <<>> THEN <<MinB>> ELSE <<ColA, MinB>>, g,
               NullNode, src, NullNode) :
         fs \in FeatureSets, g \in GroupLists, src \in Sources}

(* SELECT ... INTO: parse analysis returns a utility statement *)
UtilityQuery ==
    [commandType |-> "CMD_UTILITY", feat |-> {}, targetList |-> <<>>,
     groupClause |-> <<>>, havingQual |-> NullNode, rtable |-> <<>>,
     jointree |-> [fromlist |-> <<>>, quals |-> NullNode]]

(* Queries that vary the aggregate calls the admissibility check looks at *)
AggVariants(agg) ==
    {agg, [agg EXCEPT !.aggfilter = TRUE], [agg EXCEPT !.aggdistinct = TRUE],
     [agg EXCEPT !.aggorder = TRUE]}
IntAggs ==
    AggVariants(MinB)
    \cup {makeAggref(f, INT4OID, InvalidOid, InvalidOid, <<ColB>>) :
              f \in {"avg(int8)", "mode(int4)", "array_agg(int4)", "opaque_agg(int4)"}}
BoolAggs == AggVariants(BoolAndF)

AggQueries ==
    {SplitQuery(<<ColA, e>>, NullNode, "junk") :
         e \in IntAggs \cup {makeOpExpr("+", INT4OID, <<MaxA, g>>) : g \in IntAggs}
               \cup {makeOpExpr("+", INT4OID,
                                <<ColA, makeOpExpr("+", INT4OID, <<MaxA, g>>)>>) :
                         g \in IntAggs}}
    \cup {SplitQuery(<<ColA, MaxA>>, h, "junk") :
              h \in {Gt10(g) : g \in IntAggs} \cup BoolAggs
                    \cup {Gt10(makeOpExpr("+", INT4OID, <<MaxA, g>>)) : g \in IntAggs}}

DefaultStmt == [view |-> [schemaname |-> "public", relname |-> "v"], aliases |-> <<>>]

(* Statements that vary the view's name and its column aliases.  The long    *)
(* names have 48 and 49 characters: with the first the internal view's name  *)
(* does not fit NAMEDATALEN, with the second the internal table's does not.  *)
ViewName48 == "hourly_minimum_and_maximum_of_every_sensor_readi"
ViewName49 == "hourly_minimum_and_maximum_of_every_sensor_readiy"
ViewNames == {"v", "plain", "vtab", "vview", ViewName48, ViewName49}
Statements ==
    {DefaultStmt}
    \cup {[DefaultStmt EXCEPT !.aliases = al] :
              al \in {<<"x">>, <<"x", "y">>, <<"x", "y", "z">>, <<"x", "y", "z", "w">>}}
    \cup {[DefaultStmt EXCEPT !.view.relname = nm] : nm \in ViewNames}

MaxB == makeAggref("max(int4)", INT4OID, InvalidOid, InvalidOid, <<ColB>>)
MinNow ==
    makeAggref("min(int4)", INT4OID, InvalidOid, InvalidOid,
               <<makeFuncExpr("now()", INT4OID, <<>>, InvalidOid)>>)

StmtQueries ==
    {SplitQuery(<<ColA, MinB>>, NullNode, "junk"),
     SplitQuery(<<ColA, MinB>>, NullNode, "first"),
     SplitQuery(<<ColA, MinB, MaxB>>, NullNode, "junk"),
     SplitQuery(<<ColA, MinNow>>, NullNode, "junk"),
     MakeQuery("CMD_SELECT", {"limitCount"}, <<ColA, MinB>>, <<ColA, Bucket("3600")>>,
               NullNode, EventsSource, NullNode)}
    \cup {[SplitQuery(<<ColA, MinB>>, NullNode, "junk") EXCEPT !.targetList[1].resname = nm] :
              nm \in {"alpha", "tscol2", "chunk_id", "time_partition_col"}}

StmtInputs == {[query |-> q, stmt |-> st] : q \in StmtQueries, st \in Statements}

Inputs ==
    {[query |-> q, stmt |-> DefaultStmt] :
         q \in SplitQueries \cup ShapeQueries \cup AggQueries \cup {UtilityQuery}}
    \cup StmtInputs

----------------------------------------------------------------------------
(* External collaborators: relation and view creation, partitioning *)

NAMEDATALEN == 64
INTERNAL_SCHEMA_NAME == "_timescaledb_internal"

(* The catalogs before the statement.  committed is the catalogs as of the  *)
(* start of the running transaction, which an abort returns to.             *)
InitCatalog ==
    [relations |-> {[schemaname |-> "public", relname |-> r,
                     relkind |-> pg_class[r].relkind] : r \in DOMAIN pg_class},
     tables |-> {}, views |-> {}, hypertables |-> {}, jobs |-> {},
     continuous_agg |-> {}, triggers |-> {}]

InitDb ==
    [relations |-> InitCatalog.relations,
     tables |-> {}, views |-> {}, hypertables |-> {}, jobs |-> {},
     continuous_agg |-> {}, triggers |-> {}, source_rows |-> {}, job_stat |-> {},
     committed |-> InitCatalog]

Catalog(database) ==
    [relations |-> database.relations, tables |-> database.tables,
     views |-> database.views, hypertables |-> database.hypertables,
     jobs |-> database.jobs, continuous_agg |-> database.continuous_agg,
     triggers |-> database.triggers]

get_relname_relid_Never(database, relname, schemaname) == FALSE

get_relname_relid(database, relname, schemaname) ==
    \E r \in database.relations : r.relname = relname /\ r.schemaname = schemaname

NoLocals ==
    [mataddress |-> InvalidOid, mat_htid |-> 0, final_selquery |-> NullNode,
     partial_selquery |-> NullNode, part_rel |-> NullNode, job_id |-> 0]

(* A faulty variant: snprintf's truncated buffer is used without looking at  *)
(* its return value.                                                        *)
PRINT_MATINTERNAL_NAME_Truncating(prefix, relname, suffix) ==
    LET buf == prefix \o relname \o suffix
    IN [err |-> NoErr,
        buf |-> IF Len(buf) >= NAMEDATALEN THEN prefix \o relname ELSE buf]

(* snprintf(buf, NAMEDATALEN, prefix, relname) with prefix "<prefix>%s<suffix>" *)
PRINT_MATINTERNAL_NAME(prefix, relname, suffix) ==
    LET buf == prefix \o relname \o suffix
    IN IF Len(buf) >= NAMEDATALEN
       THEN [err |-> " bad materialization internal name", buf |-> NoName]
       ELSE [err |-> NoErr, buf |-> buf]

(* DefineRelation: a column name given twice is rejected; the new           *)
(* relation's identity is its qualified name                                *)
DefineRelationCompat(database, rel, tableElts, relkind) ==
    IF \E i, j \in 1..Len(tableElts) : i < j /\ tableElts[i].colname = tableElts[j].colname
    THEN [err |-> "column specified more than once", db |-> database,
          address |-> InvalidOid]
    ELSE IF get_relname_relid(database, rel.relname, rel.schemaname)
    THEN [err |-> "relation already exists", db |-> database, address |-> InvalidOid]
    ELSE [err |-> NoErr,
          db |-> [database EXCEPT !.relations =
                      @ \cup {[schemaname |-> rel.schemaname, relname |-> rel.relname,
                               relkind |-> relkind]}],
          address |-> rel.schemaname \o "." \o rel.relname]

mattablecolumninfo_create_materialization_table_Populated(database, matcolinfo, mat_rel, origquery_tblinfo, overflowWraps) ==
    LET d == DefineRelationCompat(database, mat_rel, matcolinfo.matcollist, "r")
        product == Int64Mul(MATPARTCOL_INTERVAL_FACTOR,
                            origquery_tblinfo.htpartcol_interval_len)
        mat_htid == 4 + Cardinality(database.hypertables)
    IN IF d.err # NoErr
       THEN [err |-> d.err, db |-> database, mataddress |-> InvalidOid, mat_htid |-> 0]
       ELSE [err |-> NoErr,
             db |-> [d.db EXCEPT
                        !.tables = @ \cup {[relid |-> d.address,
                                            tableElts |-> matcolinfo.matcollist,
                                            rows |-> database.source_rows]},
                        !.hypertables = @ \cup {[id |-> mat_htid, relid |-> d.address,
                                                 colname |-> matcolinfo.matpartcolname,
                                                 interval |-> product.value]}],
             mataddress |-> d.address, mat_htid |-> mat_htid]

(* A signed overflow of the interval product is undefined: the build either *)
(* wraps it (-fwrapv) or traps (-ftrapv).                                   *)
mattablecolumninfo_create_materialization_table(database, matcolinfo, mat_rel, origquery_tblinfo, overflowWraps) ==
    LET d == DefineRelationCompat(database, mat_rel, matcolinfo.matcollist, "r")
        product == Int64Mul(MATPARTCOL_INTERVAL_FACTOR,
                            origquery_tblinfo.htpartcol_interval_len)
        matpartcol_interval == product.value
        mat_htid == 4 + Cardinality(database.hypertables)
    IN IF d.err # NoErr
       THEN [err |-> d.err, db |-> database, mataddress |-> InvalidOid, mat_htid |-> 0]
       ELSE IF product.overflow /\ ~overflowWraps
       THEN [err |-> "signed integer overflow trap",
             db |-> [d.db EXCEPT
                        !.tables = @ \cup {[relid |-> d.address,
                                            tableElts |-> matcolinfo.matcollist,
                                            rows |-> {}]}],
             mataddress |-> d.address, mat_htid |-> 0]
       ELSE [err |-> NoErr,
             db |-> [d.db EXCEPT
                        !.tables = @ \cup {[relid |-> d.address,
                                            tableElts |-> matcolinfo.matcollist,
                                            rows |-> {}]},
                        !.hypertables = @ \cup {[id |-> mat_htid, relid |-> d.address,
                                                 colname |-> matcolinfo.matpartcolname,
                                                 interval |-> matpartcol_interval]}],
             mataddress |-> d.address, mat_htid |-> mat_htid]

create_view_for_query(database, selquery, viewrel) ==
    LET visible == SelectSeq(selquery.targetList, LAMBDA tle : ~tle.resjunk)
        selcollist == [i \in 1..Len(visible) |->
                          makeColumnDef(visible[i].resname, exprType(visible[i].expr),
                                        exprTypmod(visible[i].expr),
                                        exprCollation(visible[i].expr))]
        d == DefineRelationCompat(database, viewrel, selcollist, "v")
    IN IF d.err # NoErr THEN [err |-> d.err, db |-> database, address |-> InvalidOid]
       ELSE [err |-> NoErr,
             db |-> [d.db EXCEPT !.views = @ \cup {[relid |-> d.address,
                                                    tableElts |-> selcollist,
                                                    query |-> selquery]}],
             address |-> d.address]


ts_continuous_agg_job_add_None(database, raw_hypertable_id, bucket_width) ==
    [db |-> database, job_id |-> 1000]

(* ts_continuous_agg_job_add: a new background job for the raw hypertable *)
ts_continuous_agg_job_add(database, raw_hypertable_id, bucket_width) ==
    LET job_id == 1000 + Cardinality(database.jobs)
    IN [db |-> [database EXCEPT !.jobs = @ \cup {[id |-> job_id,
                                                    hypertable_id |-> raw_hypertable_id,
                                                    bucket_width |-> bucket_width]}],
        job_id |-> job_id]

(* The refresh lag a new continuous aggregate starts with, a function of the
   bucket width computed outside this file *)
ts_continuous_agg_job_get_default_refresh_lag(bucket_width) ==
    [default_refresh_lag_of |-> bucket_width]

create_cagg_catlog_entry_RawAsMat(database, matht_id, rawht_id, user_schema, user_view, partial_schema, partial_view, bucket_width, job_id, userquery_parse) ==
    [database EXCEPT !.continuous_agg = @ \cup
        {[mat_hypertable_id |-> rawht_id,
          raw_hypertable_id |-> rawht_id,
          user_view_schema |-> user_schema,
          user_view_name |-> user_view,
          partial_view_schema |-> partial_schema,
          partial_view_name |-> partial_view,
          bucket_width |-> bucket_width,
          job_id |-> job_id,
          refresh_lag |-> ts_continuous_agg_job_get_default_refresh_lag(bucket_width),
          user_view_query |-> userquery_parse]}]

create_cagg_catlog_entry(database, matht_id, rawht_id, user_schema, user_view, partial_schema, partial_view, bucket_width, job_id, userquery_parse) ==
    [database EXCEPT !.continuous_agg = @ \cup
        {[mat_hypertable_id |-> matht_id,
          raw_hypertable_id |-> rawht_id,
          user_view_schema |-> user_schema,
          user_view_name |-> user_view,
          partial_view_schema |-> partial_schema,
          partial_view_name |-> partial_view,
          bucket_width |-> bucket_width,
          job_id |-> job_id,
          refresh_lag |-> ts_continuous_agg_job_get_default_refresh_lag(bucket_width),
          user_view_query |-> userquery_parse]}]

(* CreateTrigger (isInternal false): a relation has at most one trigger of  *)
(* a name.                                                                  *)
CreateTriggerCompat(database, trig) ==
    IF \E t \in database.triggers : t.relid = trig.relid /\ t.trigname = trig.trigname
    THEN [err |-> "trigger for relation already exists", db |-> database]
    ELSE [err |-> NoErr, db |-> [database EXCEPT !.triggers = @ \cup {trig}]]

cagg_add_trigger_hypertable_MatArg(database, relid, trigarg) ==
    CreateTriggerCompat(database,
        [relid |-> relid, trigname |-> "CAGGINVAL_TRIGGER_NAME",
         funcname |-> <<INTERNAL_SCHEMA_NAME, CAGG_INVALIDATION_TRIGGER>>,
         args |-> <<ToString(4 + Cardinality(database.hypertables) - 1)>>,
         row |-> TRUE, timing |-> "AFTER",
         events |-> {"INSERT", "UPDATE", "DELETE"}])

(* A row trigger after INSERT, UPDATE or DELETE on relid, under the one     *)
(* name CAGGINVAL_TRIGGER_NAME                                              *)
cagg_add_trigger_hypertable(database, relid, trigarg) ==
    CreateTriggerCompat(database,
        [relid |-> relid, trigname |-> "CAGGINVAL_TRIGGER_NAME",
         funcname |-> <<INTERNAL_SCHEMA_NAME, CAGG_INVALIDATION_TRIGGER>>,
         args |-> <<trigarg>>, row |-> TRUE, timing |-> "AFTER",
         events |-> {"INSERT", "UPDATE", "DELETE"}])

----------------------------------------------------------------------------
(* The statement: tsl_process_continuous_agg_viewstmt and cagg_create *)

NoMatTableColumnInfo == mattablecolumninfo_init(<<>>, <<>>, <<>>)
NoCall == [op |-> "none"]

Init ==
    /\ pc = "start"
    /\ err = NoErr
    /\ \E inp \in Inputs :
          /\ stmt = inp.stmt
          /\ query = inp.query
          /\ query0 = inp.query
    /\ timebucket_exprinfo = NoTbInfo
    /\ mattblinfo = NoMatTableColumnInfo
    /\ finalqinfo = NoFinalizeQueryInfo
    /\ cc = NoLocals
    /\ db = InitDb
    /\ lastcall = NoCall

(* tsl_process_continuous_agg_viewstmt up to the call of cagg_create *)
ProcessViewStmt ==
    /\ pc = "start"
    /\ \E assertsEnabled \in BOOLEAN :
          LET dup == get_relname_relid(db, stmt.view.relname, stmt.view.schemaname)
              r == cagg_validate_query(query, assertsEnabled)
          IN /\ err' = IF dup THEN "continuous aggregate query already exists"
                       ELSE r.err
             /\ pc' = IF dup \/ r.err # NoErr THEN "error" ELSE "finalizequery_init"
             /\ timebucket_exprinfo' = IF dup THEN timebucket_exprinfo ELSE r.ret
             /\ lastcall' = [op |-> IF dup THEN "get_relname_relid"
                                    ELSE "cagg_validate_query"]
    /\ UNCHANGED <<stmt, query, query0, mattblinfo, finalqinfo, cc, db>>

(* cagg_create: mattablecolumninfo_init and finalizequery_init; r is what   *)
(* finalizequery_init left behind                                           *)
FinalizeQueryInitReturn(r) ==
    /\ err' = r.err
    /\ pc' = IF r.err # NoErr THEN "error" ELSE "addinternal"
    /\ mattblinfo' = r.mattblinfo
    /\ finalqinfo' = r.inp
    /\ query' = r.orig_query
    /\ lastcall' = [op |-> "finalizequery_init"]

FinalizeQueryInit ==
    /\ pc = "finalizequery_init"
    /\ FinalizeQueryInitReturn(
           finalizequery_init(query, stmt.aliases,
                              mattablecolumninfo_init(<<>>, <<>>, query.groupClause)))
    /\ UNCHANGED <<stmt, query0, timebucket_exprinfo, cc, db>>

(* cagg_create step 0: mattablecolumninfo_addinternal.  mattablecolumninfo_init *)
(* was handed panquery->groupClause itself, so partial_grouplist and the    *)
(* query's groupClause are one List: lappend to a non-empty list extends it *)
(* in place, for both.                                                      *)
AddInternalReturn(m) ==
    /\ mattblinfo' = m
    /\ query' = IF query.groupClause = <<>> THEN query
                ELSE [query EXCEPT !.groupClause = m.partial_grouplist]

AddInternal ==
    /\ pc = "addinternal"
    /\ AddInternalReturn(mattablecolumninfo_addinternal(mattblinfo, query.rtable[1],
                                                        timebucket_exprinfo.htid))
    /\ pc' = "create_materialization_table"
    /\ lastcall' = [op |-> "mattablecolumninfo_addinternal"]
    /\ UNCHANGED <<err, stmt, query0, timebucket_exprinfo, finalqinfo, cc, db>>

(* cagg_create step 1: name and create the materialization table *)
CreateMaterializationTable ==
    /\ pc = "create_materialization_table"
    /\ \E overflowWraps \in BOOLEAN :
          LET n == PRINT_MATINTERNAL_NAME("ts_internal_", stmt.view.relname, "tab")
              mat_rel == [schemaname |-> INTERNAL_SCHEMA_NAME, relname |-> n.buf]
              r == mattablecolumninfo_create_materialization_table(
                       db, mattblinfo, mat_rel, timebucket_exprinfo, overflowWraps)
              e == IF n.err # NoErr THEN n.err ELSE r.err
          IN /\ err' = e
             /\ pc' = IF e # NoErr THEN "error" ELSE "final_view"
             /\ db' = IF n.err # NoErr THEN db ELSE r.db
             /\ cc' = IF e # NoErr THEN cc
                      ELSE [cc EXCEPT !.mataddress = r.mataddress,
                                      !.mat_htid = r.mat_htid]
    /\ lastcall' = [op |-> "mattablecolumninfo_create_materialization_table"]
    /\ UNCHANGED <<stmt, query, query0, timebucket_exprinfo, mattblinfo, finalqinfo>>

(* cagg_create step 2: the finalize query and the user view *)
CreateFinalView ==
    /\ pc = "final_view"
    /\ LET f == finalizequery_get_select_query(finalqinfo, mattblinfo.matcollist,
                                               cc.mataddress)
           v == create_view_for_query(db, f.query, stmt.view)
           e == IF f.err # NoErr THEN f.err ELSE v.err
       IN /\ err' = e
          /\ pc' = IF e # NoErr THEN "error" ELSE "partial_view"
          /\ db' = IF e # NoErr THEN db ELSE v.db
          /\ cc' = IF e # NoErr THEN cc ELSE [cc EXCEPT !.final_selquery = f.query]
    /\ lastcall' = [op |-> "create_view_for_query"]
    /\ UNCHANGED <<stmt, query, query0, timebucket_exprinfo, mattblinfo, finalqinfo>>

(* cagg_create step 3: the partial query and the internal view *)
CreatePartialView ==
    /\ pc = "partial_view"
    /\ LET partial_selquery == mattablecolumninfo_get_partial_select_query(mattblinfo,
                                                                          query)
           n == PRINT_MATINTERNAL_NAME("ts_internal_", stmt.view.relname, "view")
           part_rel == [schemaname |-> INTERNAL_SCHEMA_NAME, relname |-> n.buf]
           v == create_view_for_query(db, partial_selquery, part_rel)
           e == IF n.err # NoErr THEN n.err ELSE v.err
       IN /\ err' = e
          /\ pc' = IF e # NoErr THEN "error" ELSE "job"
          /\ db' = IF e # NoErr THEN db ELSE v.db
          /\ cc' = IF e # NoErr THEN cc
                   ELSE [cc EXCEPT !.partial_selquery = partial_selquery,
                                   !.part_rel = part_rel]
    /\ lastcall' = [op |-> "mattablecolumninfo_get_partial_select_query"]
    /\ UNCHANGED <<stmt, query, query0, timebucket_exprinfo, mattblinfo, finalqinfo>>

(* cagg_create step 4a: the background job *)
RegisterJobReturn(j) ==
    /\ db' = j.db
    /\ cc' = [cc EXCEPT !.job_id = j.job_id]

RegisterJob ==
    /\ pc = "job"
    /\ RegisterJobReturn(ts_continuous_agg_job_add(db, timebucket_exprinfo.htid,
                                                   timebucket_exprinfo.bucket_width))
    /\ pc' = "catalog"
    /\ lastcall' = [op |-> "ts_continuous_agg_job_add"]
    /\ UNCHANGED <<err, stmt, query, query0, timebucket_exprinfo, mattblinfo,
                   finalqinfo>>

(* cagg_create step 4: the catalog row *)
CreateCatalogEntry ==
    /\ pc = "catalog"
    /\ db' = create_cagg_catlog_entry(db, cc.mat_htid, timebucket_exprinfo.htid,
                                      stmt.view.schemaname, stmt.view.relname,
                                      cc.part_rel.schemaname, cc.part_rel.relname,
                                      timebucket_exprinfo.bucket_width, cc.job_id,
                                      query)
    /\ pc' = "trigger"
    /\ lastcall' = [op |-> "create_cagg_catlog_entry"]
    /\ UNCHANGED <<err, stmt, query, query0, timebucket_exprinfo, mattblinfo,
                   finalqinfo, cc>>

(* cagg_create: the invalidation trigger on the raw hypertable *)
AddTrigger ==
    /\ pc = "trigger"
    /\ LET trigarg == ToString(timebucket_exprinfo.htid)
           bad == Len(trigarg) >= NAMEDATALEN
           r == cagg_add_trigger_hypertable(db, timebucket_exprinfo.htoid, trigarg)
       IN /\ err' = IF bad THEN "bad argument to continuous aggregate trigger"
                    ELSE r.err
          /\ pc' = IF bad \/ r.err # NoErr THEN "error" ELSE "done"
          /\ db' = IF bad THEN db ELSE r.db
    /\ lastcall' = [op |-> "cagg_add_trigger_hypertable"]
    /\ UNCHANGED <<stmt, query, query0, timebucket_exprinfo, mattblinfo, finalqinfo, cc>>

(* ereport(ERROR) unwinds to the enclosing transaction, which aborts: every *)
(* catalog change the statement made is undone.  Table data written by      *)
(* earlier transactions stays.                                              *)
AbortTransaction ==
    /\ pc = "error"
    /\ pc' = "aborted"
    /\ db' = [db EXCEPT !.relations = db.committed.relations,
                        !.tables = db.committed.tables,
                        !.views = db.committed.views,
                        !.hypertables = db.committed.hypertables,
                        !.jobs = db.committed.jobs,
                        !.continuous_agg = db.committed.continuous_agg,
                        !.triggers = db.committed.triggers]
    /\ lastcall' = [op |-> "AbortTransaction"]
    /\ UNCHANGED <<err, stmt, query, query0, timebucket_exprinfo, mattblinfo,
                   finalqinfo, cc>>

Next ==
    \/ ProcessViewStmt
    \/ FinalizeQueryInit
    \/ AddInternal
    \/ CreateMaterializationTable
    \/ CreateFinalView
    \/ CreatePartialView
    \/ RegisterJob
    \/ CreateCatalogEntry
    \/ AddTrigger
    \/ AbortTransaction

Spec == Init /\ [][Next]_vars

----------------------------------------------------------------------------
(* The compiled aggregate in use: rows arrive in the source hypertable and  *)
(* the registered job runs, as in the regression script that follows the    *)
(* compiler in the source.                                                  *)

MaxRows == 2

LifeInit ==
    /\ pc = "start"
    /\ err = NoErr
    /\ \E inp \in StmtInputs :
          /\ stmt = inp.stmt
          /\ query = inp.query
          /\ query0 = inp.query
    /\ timebucket_exprinfo = NoTbInfo
    /\ mattblinfo = NoMatTableColumnInfo
    /\ finalqinfo = NoFinalizeQueryInfo
    /\ cc = NoLocals
    /\ \E rows \in {{}, {1}} : db = [InitDb EXCEPT !.source_rows = rows]
    /\ lastcall = NoCall

(* INSERT INTO the source hypertable *)
InsertSourceRow ==
    /\ pc = "done"
    /\ Cardinality(db.source_rows) < MaxRows
    /\ db' = [db EXCEPT !.source_rows = @ \cup {Cardinality(@) + 1}]
    /\ lastcall' = [op |-> "InsertSourceRow"]
    /\ UNCHANGED <<pc, err, stmt, query, query0, timebucket_exprinfo, mattblinfo,
                   finalqinfo, cc>>

(* The scheduler runs the registered job: it materializes some of the rows  *)
(* of the source and records the run.                                       *)
RunRefreshJob ==
    /\ pc = "done"
    /\ \E j \in db.jobs, materialized \in SUBSET db.source_rows :
          db' = [db EXCEPT
                    !.tables = {IF t.relid = cc.mataddress
                                THEN [t EXCEPT !.rows = @ \cup materialized]
                                ELSE t : t \in @},
                    !.job_stat = @ \cup {j.id}]
    /\ lastcall' = [op |-> "RunRefreshJob"]
    /\ UNCHANGED <<pc, err, stmt, query, query0, timebucket_exprinfo, mattblinfo,
                   finalqinfo, cc>>

(* SELECT * FROM the user view: its query reads the materialization table   *)
(* alone, grouped, so it returns rows only for rows of that table.          *)
UserViewRows ==
    UNION {t.rows : t \in {t \in db.tables :
                              \E v \in db.views :
                                  /\ v.relid = stmt.view.schemaname \o "."
                                                   \o stmt.view.relname
                                  /\ v.query.rtable[1].relid = t.relid}}

LifeNext == Next \/ InsertSourceRow \/ RunRefreshJob

LifeSpec == LifeInit /\ [][LifeNext]_vars

(* The compiler on the statements that vary the view's name and aliases *)
StmtInit ==
    /\ pc = "start"
    /\ err = NoErr
    /\ \E inp \in StmtInputs :
          /\ stmt = inp.stmt
          /\ query = inp.query
          /\ query0 = inp.query
    /\ timebucket_exprinfo = NoTbInfo
    /\ mattblinfo = NoMatTableColumnInfo
    /\ finalqinfo = NoFinalizeQueryInfo
    /\ cc = NoLocals
    /\ db = InitDb
    /\ lastcall = NoCall

StmtSpec == StmtInit /\ [][Next]_vars

----------------------------------------------------------------------------
(* Two statements, one after the other: the first creates view v, and once  *)
(* its transaction has committed or aborted the second creates view w.      *)

WideSource == Source(<<RelRte("wide", FALSE, TRUE)>>, <<RangeTblRef(1)>>)

PairQueries ==
    {SplitQuery(<<ColA, MinB>>, NullNode, "junk"),
     MakeQuery("CMD_SELECT", {}, <<ColA, MinB>>, <<ColA, Bucket("3600")>>, NullNode,
               WideSource, NullNode),
     MakeQuery("CMD_SELECT", {"limitCount"}, <<ColA, MinB>>, <<ColA, Bucket("3600")>>,
               NullNode, EventsSource, NullNode)}

PairAliases == {<<>>, <<"x", "y", "z">>}

PairInit ==
    /\ pc = "start"
    /\ err = NoErr
    /\ \E q \in PairQueries, al \in PairAliases :
          /\ stmt = [DefaultStmt EXCEPT !.aliases = al]
          /\ query = q
          /\ query0 = q
    /\ timebucket_exprinfo = NoTbInfo
    /\ mattblinfo = NoMatTableColumnInfo
    /\ finalqinfo = NoFinalizeQueryInfo
    /\ cc = NoLocals
    /\ db = InitDb
    /\ lastcall = NoCall

(* The first statement's transaction has ended; the second statement starts *)
(* on the catalogs as they are now.                                         *)
NextStatement ==
    /\ pc \in {"done", "aborted"}
    /\ stmt.view.relname = "v"
    /\ pc' = "start"
    /\ err' = NoErr
    /\ \E q \in PairQueries, al \in PairAliases :
          /\ stmt' = [view |-> [schemaname |-> "public", relname |-> "w"],
                      aliases |-> al]
          /\ query' = q
          /\ query0' = q
    /\ timebucket_exprinfo' = NoTbInfo
    /\ mattblinfo' = NoMatTableColumnInfo
    /\ finalqinfo' = NoFinalizeQueryInfo
    /\ cc' = NoLocals
    /\ db' = [db EXCEPT !.committed = Catalog(db)]
    /\ lastcall' = [op |-> "NextStatement"]

PairNext == Next \/ NextStatement

PairSpec == PairInit /\ [][PairNext]_vars

----------------------------------------------------------------------------
(* The schema builder on its own: any sequence of calls *)

BuilderInputs ==
    {MinB, MaxC,
     makeAggref("min(int4)", INT4OID, InvalidOid, InvalidOid,
                <<makeFuncExpr("now()", INT4OID, <<>>, InvalidOid)>>),
     makeTargetEntry(ColA, 1, "a", FALSE),
     [makeTargetEntry(ColC, 2, NoName, TRUE) EXCEPT !.ressortgroupref = 1],
     [makeTargetEntry(Bucket("3600"), 3, "time_bucket", FALSE)
          EXCEPT !.ressortgroupref = 2],
     makeTargetEntry(makeFuncExpr("now()", INT8OID, <<>>, InvalidOid), 4, "now", FALSE),
     ColA, MinBPlusMaxA}

BuilderInit ==
    /\ pc = "builder"
    /\ err = NoErr
    /\ stmt = DefaultStmt
    /\ query = SplitQuery(<<ColA, MinB>>, NullNode, "junk")
    /\ query0 = query
    /\ timebucket_exprinfo = caggtimebucketinfo_init(1, "events", HtPartColNo,
                                                     Int64(HtInterval))
    /\ \E g \in {<<>>, <<makeSortGroupClause(1)>>,
                 <<makeSortGroupClause(1), makeSortGroupClause(2)>>} :
          mattblinfo = mattablecolumninfo_init(<<>>, <<>>, g)
    /\ finalqinfo = NoFinalizeQueryInfo
    /\ cc = NoLocals
    /\ db = InitDb
    /\ lastcall = NoCall

BuilderAddEntry ==
    /\ pc = "builder"
    /\ Len(mattblinfo.matcollist) < MaxBuilderCalls
    /\ \E input \in BuilderInputs :
          LET r == mattablecolumninfo_addentry(mattblinfo, input)
          IN /\ mattblinfo' = r.out
             /\ lastcall' = [op |-> "addentry", input |-> input, err |-> r.err,
                             var |-> r.var]
    /\ UNCHANGED <<pc, err, stmt, query, query0, timebucket_exprinfo, finalqinfo, cc, db>>

BuilderAddInternal ==
    /\ pc = "builder"
    /\ mattblinfo' = mattablecolumninfo_addinternal(mattblinfo, query.rtable[1],
                                                    timebucket_exprinfo.htid)
    /\ lastcall' = [op |-> "addinternal"]
    /\ pc' = "builder_done"
    /\ UNCHANGED <<err, stmt, query, query0, timebucket_exprinfo, finalqinfo, cc, db>>

BuilderNext == BuilderAddEntry \/ BuilderAddInternal

BuilderSpec == BuilderInit /\ [][BuilderNext]_vars

----------------------------------------------------------------------------
(* Properties.  query0 is the analyzed query as the statement received it.  *)

(* Every node of an expression tree, the tree's root included *)
RECURSIVE SubNodes(_)
SubNodes(node) ==
    {node} \cup (IF node.tag = "TargetEntry" THEN SubNodes(node.expr)
                 ELSE IF HasArgs(node)
                 THEN UNION {SubNodes(node.args[i]) : i \in 1..Len(node.args)}
                 ELSE {})

ListNodes(list) == UNION {SubNodes(list[i]) : i \in 1..Len(list)}

RECURSIVE SumSeq(_)
SumSeq(seq) == IF seq = <<>> THEN 0 ELSE Head(seq) + SumSeq(Tail(seq))

(* How many times x occurs in a tree; occurrences inside x are not counted *)
RECURSIVE Occurrences(_, _)
Occurrences(x, node) ==
    IF node = x THEN 1
    ELSE IF node.tag = "TargetEntry" THEN Occurrences(x, node.expr)
    ELSE IF HasArgs(node)
    THEN SumSeq([i \in 1..Len(node.args) |-> Occurrences(x, node.args[i])])
    ELSE 0

(* The materialization columns whose partial expression is partialize(ag) *)
ColumnsFor(ag) ==
    {k \in 1..Len(mattblinfo.partial_seltlist) :
         mattblinfo.partial_seltlist[k].expr = get_partialize_funcexpr(ag)}

(* node is a finalize call that reads materialization column k *)
IsFinalizeOf(node, k) ==
    /\ node.tag = "Aggref"
    /\ node.aggfnoid = get_finalizefnoid
    /\ Len(node.args) = 5
    /\ node.args[4].expr.tag = "Var"
    /\ node.args[4].expr.varno = 1
    /\ node.args[4].expr.varattno = k

(* The states right after cagg_validate_query has decided, and right after  *)
(* finalizequery_init has returned                                          *)
Validated == lastcall.op = "cagg_validate_query"
Accepted == Validated /\ pc # "error"
SplitDone == lastcall.op = "finalizequery_init" /\ pc # "error"

(* C1: for every accepted query the projection list finalizequery_init      *)
(* builds has as many entries as the original one, in the same order, and   *)
(* entry i keeps resno i, its resjunk flag and its ressortgroupref.         *)
C1_ProjectionListAligned ==
    SplitDone =>
        LET orig == query0.targetList
            final == finalqinfo.final_seltlist
        IN /\ Len(final) = Len(orig)
           /\ \A i \in 1..Len(orig) :
                 /\ orig[i].resno = i
                 /\ final[i].resno = i
                 /\ final[i].resname = orig[i].resname
                 /\ final[i].resjunk = orig[i].resjunk
                 /\ final[i].ressortgroupref = orig[i].ressortgroupref

C1_Witness ==
    /\ SplitDone
    /\ Len(query0.targetList) >= 4
    /\ \E i \in 1..Len(query0.targetList) :
          query0.targetList[i].resjunk /\ query0.targetList[i].ressortgroupref > 0
    /\ \E i \in 1..Len(query0.targetList) :
          /\ query0.targetList[i].expr.tag = "OpExpr"
          /\ finalqinfo.final_seltlist[i].expr # query0.targetList[i].expr

(* C2: after any sequence of mattablecolumninfo_addentry calls, accepted or *)
(* rejected, and an optional mattablecolumninfo_addinternal, matcollist and *)
(* partial_seltlist have the same length; an accepted addentry appends one  *)
(* entry to each, a rejected one appends to neither.                        *)
C2_ParallelListsEqualLength ==
    /\ [](Len(mattblinfo.matcollist) = Len(mattblinfo.partial_seltlist))
    /\ [][lastcall'.op = "addentry" =>
              LET n == IF lastcall'.err = NoErr THEN 1 ELSE 0
              IN /\ Len(mattblinfo'.matcollist) = Len(mattblinfo.matcollist) + n
                 /\ Len(mattblinfo'.partial_seltlist)
                        = Len(mattblinfo.partial_seltlist) + n]_vars

C2_Witness ==
    /\ pc = "builder_done"
    /\ Len(mattblinfo.matcollist) = MaxBuilderCalls + 1
    /\ \E k \in 1..Len(mattblinfo.partial_seltlist) :
          mattblinfo.partial_seltlist[k].expr = get_partialize_funcexpr(MinB)
    /\ \E k \in 1..Len(mattblinfo.matcollist) :
          mattblinfo.matcollist[k].colname = MATPARTCOLNM

(* C3: when an aggregate call is a whole projection entry and the identical *)
(* call occurs in HAVING, exactly one materialization column is created for *)
(* it, and the rewritten entry and the rewritten HAVING both contain a      *)
(* finalize call that reads that column.                                    *)
C3_SharedAggregateOneColumn ==
    SplitDone =>
        \A i \in 1..Len(query0.targetList) :
            LET ag == query0.targetList[i].expr
            IN (ag.tag = "Aggref" /\ ag \in SubNodes(query0.havingQual)) =>
                   /\ Cardinality(ColumnsFor(ag)) = 1
                   /\ \A k \in ColumnsFor(ag) :
                         /\ IsFinalizeOf(finalqinfo.final_seltlist[i].expr, k)
                         /\ \E n \in SubNodes(finalqinfo.final_havingqual) :
                               IsFinalizeOf(n, k)

(* The case of C3 at work: one column, read by the entry and by HAVING *)
C3_Witness ==
    /\ SplitDone
    /\ query0.targetList[1].expr = ColA
    /\ query0.targetList[2].expr = MinB
    /\ query0.havingQual = Gt10(MinB)
    /\ ColumnsFor(MinB) = {2}
    /\ IsFinalizeOf(finalqinfo.final_seltlist[2].expr, 2)
    /\ IsFinalizeOf(finalqinfo.final_havingqual.args[1], 2)

(* C4: for an aggregate call that occurs in the projection list, as a whole *)
(* entry or nested in a larger one, and identically in HAVING, the HAVING   *)
(* pass adds no column: there are as many columns for the call as the       *)
(* projection list has occurrences of it.                                   *)
C4_HavingAddsNoDuplicateColumn ==
    SplitDone =>
        \A ag \in ListNodes(query0.targetList) \cap SubNodes(query0.havingQual) :
            ag.tag = "Aggref" =>
                Cardinality(ColumnsFor(ag))
                    = SumSeq([i \in 1..Len(query0.targetList) |->
                                  Occurrences(ag, query0.targetList[i])])

(* The case of C4 at work: the whole-entry call is found in HAVING and the  *)
(* HAVING pass adds nothing                                                 *)
C4_Witness ==
    /\ SplitDone
    /\ query0.havingQual = Gt10(MinB)
    /\ query0.targetList[1].expr = MinB
    /\ Cardinality(ColumnsFor(MinB)) = 1
    /\ Len(mattblinfo.matcollist) = Len(query0.targetList)
    /\ MinB \notin SubNodes(finalqinfo.final_havingqual)

(* The column a reference designates was allocated for the expression the   *)
(* reference stands in place of: orig is the original tree, final the       *)
(* rewritten tree at the same position.                                     *)
RECURSIVE Designates(_, _)
Designates(orig, final) ==
    IF final.tag = "Var"
    THEN /\ final.varno = 1
         /\ final.varattno \in 1..Len(mattblinfo.partial_seltlist)
         /\ mattblinfo.partial_seltlist[final.varattno].expr = orig
    ELSE IF final.tag = "Aggref" /\ final.aggfnoid = get_finalizefnoid
    THEN /\ orig.tag = "Aggref"
         /\ \E k \in ColumnsFor(orig) : IsFinalizeOf(final, k)
    ELSE IF final.tag = "TargetEntry"
    THEN orig.tag = "TargetEntry" /\ Designates(orig.expr, final.expr)
    ELSE IF HasArgs(final)
    THEN /\ orig.tag = final.tag
         /\ Len(orig.args) = Len(final.args)
         /\ \A i \in 1..Len(final.args) : Designates(orig.args[i], final.args[i])
    ELSE TRUE

FinalViewDone == lastcall.op = "create_view_for_query" /\ pc # "error"

(* C5: every column reference in the finalize query's projection list       *)
(* (grouping entries included) and HAVING designates a materialization      *)
(* column allocated for the expression it replaces; no reference to a       *)
(* column position of the source relation survives.                         *)
C5_ReferencesDesignateMatColumns ==
    FinalViewDone =>
        /\ cc.final_selquery.rtable[1].relid = cc.mataddress
        /\ cc.final_selquery.groupClause = query0.groupClause
        /\ Len(cc.final_selquery.targetList) = Len(query0.targetList)
        /\ \A i \in 1..Len(query0.targetList) :
              Designates(query0.targetList[i], cc.final_selquery.targetList[i])
        /\ Designates(query0.havingQual, cc.final_selquery.havingQual)

(* The case of C5 at work: a query whose every reference is rewritten *)
C5_Witness ==
    /\ FinalViewDone
    /\ query0.havingQual = Gt10(ColB)
    /\ \A i \in 1..Len(query0.targetList) :
          Designates(query0.targetList[i], cc.final_selquery.targetList[i])
    /\ Designates(query0.havingQual, cc.final_selquery.havingQual)
    /\ cc.final_selquery.havingQual # query0.havingQual

(* The pairs (aggregate call, finalize call that replaced it) of a tree and *)
(* its rewritten tree                                                       *)
RECURSIVE SplitPairs(_, _)
SplitPairs(orig, final) ==
    IF orig.tag = "Aggref" /\ final.tag = "Aggref"
    THEN IF final.aggfnoid = get_finalizefnoid /\ orig.aggfnoid # get_finalizefnoid
         THEN {<<orig, final>>}
         ELSE {}
    ELSE IF orig.tag = "TargetEntry" /\ final.tag = "TargetEntry"
    THEN SplitPairs(orig.expr, final.expr)
    ELSE IF HasArgs(orig) /\ HasArgs(final) /\ Len(orig.args) = Len(final.args)
    THEN UNION {SplitPairs(orig.args[i], final.args[i]) : i \in 1..Len(orig.args)}
    ELSE {}

SameType(a, b) ==
    /\ exprType(a) = exprType(b)
    /\ exprTypmod(a) = exprTypmod(b)
    /\ exprCollation(a) = exprCollation(b)

(* C6: the finalize call get_finalize_aggref builds for a split aggregate   *)
(* has the aggregate's result type, type modifier and result collation, so  *)
(* every rewritten projection entry has the type of the original entry.     *)
C6_FinalizeKeepsType ==
    SplitDone =>
        /\ \A i \in 1..Len(query0.targetList) :
              /\ \A p \in SplitPairs(query0.targetList[i],
                                     finalqinfo.final_seltlist[i]) :
                    SameType(p[1], p[2])
              /\ SameType(query0.targetList[i].expr,
                          finalqinfo.final_seltlist[i].expr)
        /\ \A p \in SplitPairs(query0.havingQual, finalqinfo.final_havingqual) :
              SameType(p[1], p[2])

C6_Witness ==
    /\ SplitDone
    /\ \E i \in 1..Len(query0.targetList) :
          /\ query0.targetList[i].expr = MaxC
          /\ IsFinalizeOf(finalqinfo.final_seltlist[i].expr, i)
          /\ exprCollation(finalqinfo.final_seltlist[i].expr) = DEFAULT_COLLATION_OID
    /\ \E i \in 1..Len(query0.targetList) :
          SplitPairs(query0.targetList[i], finalqinfo.final_seltlist[i])
              = {<<MinB, get_finalize_aggref(MinB, makeVar(1, 2, BYTEAOID, -1,
                                                            InvalidOid))>>}

(* The grouping clauses whose entry is a call of a time_bucket function *)
BucketCandidates(q) ==
    {i \in 1..Len(q.groupClause) :
         LET e == get_sortgroupclause_tle(q.groupClause[i], q.targetList).expr
         IN e.tag = "FuncExpr" /\ pg_proc[e.funcid].proname = TIMEBUCKETFN}

(* The candidate has two arguments, a constant width, and a second argument *)
(* that refers directly to the partition column of the source relation      *)
BucketWellFormed(q, tbinfo, i) ==
    LET fe == get_sortgroupclause_tle(q.groupClause[i], q.targetList).expr
    IN /\ Len(fe.args) = 2
       /\ fe.args[1].tag = "Const"
       /\ fe.args[2].tag = "Var"
       /\ q.rtable[fe.args[2].varno].relid = tbinfo.htoid
       /\ fe.args[2].varattno = tbinfo.htpartcolno

(* C7: caggtimebucket_validate accepts iff exactly one grouping entry is a  *)
(* time_bucket call, with two arguments, a constant first argument and a    *)
(* direct reference to the source's partition column as second; on          *)
(* acceptance the bucket info holds that constant's width and that entry's  *)
(* ressortgroupref.                                                         *)
C7_BucketAcceptedIffWellFormed ==
    (Validated /\ timebucket_exprinfo.htoid # InvalidOid) =>
        LET cands == BucketCandidates(query0)
            ok == /\ Cardinality(cands) = 1
                  /\ \A i \in cands : BucketWellFormed(query0, timebucket_exprinfo, i)
        IN /\ (pc # "error") <=> ok
           /\ (pc # "error") =>
                 \A i \in cands :
                     LET fe == get_sortgroupclause_tle(query0.groupClause[i],
                                                       query0.targetList).expr
                     IN /\ timebucket_exprinfo.sortref
                            = query0.groupClause[i].tleSortGroupRef
                        /\ timebucket_exprinfo.bucket_width
                            = ts_interval_value_to_internal(fe.args[1].constvalue,
                                                            fe.args[1].consttype)

(* The case of C7 at work: a well-formed bucket on the source is accepted *)
C7_Witness ==
    /\ Accepted
    /\ Len(query0.rtable) = 1
    /\ Cardinality(BucketCandidates(query0)) = 1
    /\ \A i \in BucketCandidates(query0) :
          BucketWellFormed(query0, timebucket_exprinfo, i)
    /\ timebucket_exprinfo.bucket_width = 10
    /\ timebucket_exprinfo.sortref = 1

(* The shapes C8 lists, as Query fields *)
ListedShapes ==
    {"hasWindowFuncs", "hasSubLinks", "distinctClause", "hasDistinctOn",
     "hasRecursive", "hasModifyingCTE", "hasForUpdate", "groupingSets",
     "setOperations", "limitCount", "limitOffset", "sortClause"}

ShapeErrors ==
    {"only SELECT query permitted for continuous aggregate query",
     "invalid SELECT query for continuous aggregate",
     "SELECT query for continuous aggregate should have at least 1 aggregate function and a GROUP BY clause with time_bucket"}

(* C8: cagg_validate_query rejects every query that is not a SELECT, that   *)
(* has window functions, sub-selects, DISTINCT (ON), recursive or           *)
(* data-modifying CTEs, row locking, grouping sets, set operations, LIMIT,  *)
(* OFFSET or ORDER BY, or that has no GROUP BY, whatever else the query     *)
(* holds, and the outcome is the same every time.                           *)
C8_ListedShapesRejected ==
    (Validated /\ (\/ query0.commandType # "CMD_SELECT"
                   \/ query0.feat \cap ListedShapes # {}
                   \/ query0.groupClause = <<>>)) =>
        /\ pc = "error"
        /\ err \in ShapeErrors
        /\ query0.commandType # "CMD_SELECT" => err = "only SELECT query permitted for continuous aggregate query"
        /\ cagg_validate_query(query0, TRUE) = cagg_validate_query(query0, FALSE)
        /\ cagg_validate_query(query0, TRUE).err = err

C8_Witness ==
    /\ Validated
    /\ pc = "error"
    /\ err = "invalid SELECT query for continuous aggregate"
    /\ query0.feat = {"limitCount"}
    /\ query0.jointree.fromlist = <<RangeTblRef(1)>>
    /\ query0.rtable = <<RelRte("events", FALSE, TRUE)>>
    /\ Cardinality(BucketCandidates(query0)) = 1

(* An aggregate call the admissibility rules exclude *)
Inadmissible(ag) ==
    \/ ag.aggfilter
    \/ ag.aggdistinct
    \/ ag.aggorder
    \/ pg_aggregate[ag.aggfnoid].aggkind # "n"
    \/ pg_aggregate[ag.aggfnoid].aggcombinefn = InvalidOid
    \/ /\ pg_aggregate[ag.aggfnoid].aggtranstype = INTERNALOID
       /\ pg_aggregate[ag.aggfnoid].aggdeserialfn = InvalidOid

(* C9: the admissibility check reaches every aggregate call, at any depth,  *)
(* of the projection list and of HAVING: a query holding a call with        *)
(* FILTER, DISTINCT or ORDER BY, an ordered-set aggregate, one without      *)
(* combine function, or one with internal state and no deserialize function *)
(* is rejected, in HAVING as in the projection list.                        *)
C9_EveryAggregateChecked ==
    Validated =>
        ((\E ag \in ListNodes(query0.targetList) \cup SubNodes(query0.havingQual) :
              ag.tag = "Aggref" /\ Inadmissible(ag))
         => pc = "error")

(* The case of C9 at work: an inadmissible call below the HAVING root *)
C9_Witness ==
    /\ Validated
    /\ pc = "error"
    /\ err = "aggregates which are not parallelizable are not supported by continuous aggregate query"
    /\ query0.havingQual # NullNode
    /\ \A ag \in ListNodes(query0.targetList) : ag.tag = "Aggref" => ~Inadmissible(ag)
    /\ \E ag \in SubNodes(query0.havingQual) : ag.tag = "Aggref" /\ Inadmissible(ag)

(* The source list is one reference to a plain, inherited, unsampled        *)
(* relation that is a hypertable without row security                       *)
SourceAdmissible(q) ==
    /\ Len(q.jointree.fromlist) = 1
    /\ q.jointree.fromlist[1].tag = "RangeTblRef"
    /\ LET rte == q.rtable[q.jointree.fromlist[1].rtindex]
       IN /\ rte.rtekind = "RTE_RELATION"
          /\ pg_class[rte.relid].relkind = "r"
          /\ ~rte.tablesample
          /\ rte.inh
          /\ ts_hypertable_cache_get_entry(rte.relid) # NullNode
          /\ ~pg_class[rte.relid].relrowsecurity
          /\ ~pg_class[rte.relid].relforcerowsecurity

(* C10: cagg_validate_query rejects every query whose source list is not    *)
(* exactly one entry, or whose single source is not a plain relation, is    *)
(* sampled, is queried with ONLY, is no hypertable, or has row security     *)
(* enabled or forced; the bucket info is returned only for a source passing *)
(* all of these and carries its identity, partition column and interval.    *)
C10_SourceChecked ==
    Validated =>
        /\ ~SourceAdmissible(query0) => pc = "error"
        /\ pc # "error" =>
              LET rte == query0.rtable[query0.jointree.fromlist[1].rtindex]
                  ht == ts_hypertable_cache_get_entry(rte.relid)
              IN /\ timebucket_exprinfo.htoid = rte.relid
                 /\ timebucket_exprinfo.htid = ht.id
                 /\ timebucket_exprinfo.htpartcolno = ht.column_attno
                 /\ timebucket_exprinfo.htpartcol_interval_len = ht.interval_length

(* The case of C10 at work: a query rejected for its source alone *)
C10_Witness ==
    /\ Validated
    /\ pc = "error"
    /\ err = "continuous aggregate query cannot be created on table with row security"
    /\ ~SourceAdmissible(query0)
    /\ query0.rtable[1].relid = "forced"

----------------------------------------------------------------------------
(* Properties of the creation steps *)

StorageObjectsCreated ==
    \/ db.relations # InitDb.relations
    \/ db.tables # {}
    \/ db.hypertables # {}
    \/ db.views # {}

AliasCountError == "too many column names were specified"

VisibleEntries(tlist) == SelectSeq(tlist, LAMBDA tle : ~tle.resjunk)

(* C11: supplying more aliases than the finalize projection has visible     *)
(* entries raises the alias-count error, and when that error is raised no   *)
(* storage object (materialization relation, hypertable registration, view) *)
(* has been created by this compilation.                                    *)
C11_AliasErrorBeforeStorage ==
    /\ (lastcall.op = "create_view_for_query"
        /\ Len(stmt.aliases) > Len(VisibleEntries(finalqinfo.final_seltlist)))
           => (pc = "error" /\ err = AliasCountError)
    /\ (pc = "error" /\ err = AliasCountError) => ~StorageObjectsCreated

(* The case of C11 at work: three aliases for two visible columns *)
C11_Witness ==
    /\ pc = "error"
    /\ err = AliasCountError
    /\ Len(stmt.aliases) = 3
    /\ Len(VisibleEntries(finalqinfo.final_seltlist)) = 2

(* Errors raised by the creation steps themselves: names, aliases and       *)
(* failures of the collaborators                                            *)
CreationErrors ==
    {" bad materialization internal name", "relation already exists",
     AliasCountError, "signed integer overflow trap",
     "bad argument to continuous aggregate trigger", "column specified more than once"}

(* C12: every rejection for shape, aggregate, bucketing, mutable function   *)
(* or existing view name is raised before anything is created, and nothing  *)
(* is created for a query that was not validated and split, or under a name *)
(* that exists.                                                             *)
C12_RejectionsBeforeCreation ==
    /\ (pc = "error" /\ err \notin CreationErrors) =>
           /\ db = InitDb
           /\ lastcall.op \in {"get_relname_relid", "cagg_validate_query",
                               "finalizequery_init"}
    /\ db # InitDb =>
           /\ timebucket_exprinfo.htoid # InvalidOid
           /\ timebucket_exprinfo.bucket_width # 0
           /\ Len(mattblinfo.matcollist) > Len(VisibleEntries(query0.targetList))
           /\ ~\E r \in InitDb.relations :
                  r.relname = stmt.view.relname /\ r.schemaname = stmt.view.schemaname

(* The cases of C12 at work: a mutable function is rejected by the schema   *)
(* builder with nothing created                                             *)
C12_Witness ==
    /\ pc = "error"
    /\ err = "only immutable functions are supported for continuous aggregate query"
    /\ lastcall.op = "finalizequery_init"
    /\ db = InitDb

(* The names of the visible entries of a projection list *)
VisibleNames(tlist) ==
    LET vis == VisibleEntries(tlist) IN [k \in 1..Len(vis) |-> vis[k].resname]

JunkEntries(tlist) == SelectSeq(tlist, LAMBDA tle : tle.resjunk)

AliasStepDone == lastcall.op = "create_view_for_query" /\ stmt.aliases # <<>>

(* C13 as stated: aliases are assigned in order to the visible entries, and *)
(* any difference between the number of aliases and the number of visible   *)
(* entries, more or fewer, is an error.                                     *)
C13_AnyAliasMismatchIsError ==
    AliasStepDone =>
        IF Len(stmt.aliases) # Len(VisibleEntries(finalqinfo.final_seltlist))
        THEN pc = "error" /\ err = AliasCountError
        ELSE /\ pc # "error"
             /\ VisibleNames(cc.final_selquery.targetList) = stmt.aliases

(* C13: aliases are assigned in order to the visible entries, non-visible   *)
(* entries are skipped; more aliases than visible entries is an error;      *)
(* with fewer aliases the first visible entries are renamed and the others  *)
(* keep their names.                                                        *)
C13_AliasesAssignedInOrder ==
    AliasStepDone =>
        LET before == finalqinfo.final_seltlist
            n == Len(stmt.aliases)
        IN IF n > Len(VisibleEntries(before))
           THEN pc = "error" /\ err = AliasCountError
           ELSE /\ pc # "error"
                /\ LET after == cc.final_selquery.targetList
                   IN /\ Len(after) = Len(before)
                      /\ \A i \in 1..Len(after) : after[i].resjunk = before[i].resjunk
                      /\ VisibleNames(after)
                             = [k \in 1..Len(VisibleEntries(before)) |->
                                    IF k <= n THEN stmt.aliases[k]
                                    ELSE VisibleNames(before)[k]]
                      /\ [k \in 1..Len(JunkEntries(after)) |->
                              JunkEntries(after)[k].resname]
                             = [k \in 1..Len(JunkEntries(before)) |->
                                    JunkEntries(before)[k].resname]

(* The case of C13 at work: two aliases for two visible entries, the        *)
(* non-visible bucket entry keeps its name                                  *)
C13_Witness ==
    /\ AliasStepDone
    /\ pc # "error"
    /\ stmt.aliases = <<"x", "y">>
    /\ VisibleNames(cc.final_selquery.targetList) = <<"x", "y">>
    /\ Len(JunkEntries(cc.final_selquery.targetList)) = 1

(* C14: the original query is never mutated: its projection entries and    *)
(* grouping list stay what they were, and the query stored in the catalog   *)
(* row is the user's query.                                                 *)
C14_OriginalQueryNeverMutated ==
    /\ query.targetList = query0.targetList
    /\ query.groupClause = query0.groupClause
    /\ \A row \in db.continuous_agg : row.user_view_query = query0

(* The case of C14 at work: a compilation that ran to its end, with the     *)
(* query's other parts as they were                                         *)
C14_Witness ==
    /\ pc = "done"
    /\ query.rtable = query0.rtable
    /\ query.jointree = query0.jointree
    /\ query.havingQual = query0.havingQual
    /\ \E row \in db.continuous_agg : row.user_view_query = query

NothingExists ==
    /\ db.relations = InitDb.relations
    /\ db.tables = {}
    /\ db.hypertables = {}
    /\ db.views = {}
    /\ db.jobs = {}
    /\ db.continuous_agg = {}
    /\ db.triggers = {}

AllExist ==
    /\ \E t \in db.tables : t.relid = cc.mataddress
    /\ \E h \in db.hypertables : h.relid = cc.mataddress
    /\ \E v \in db.views : v.query = cc.final_selquery
    /\ \E v \in db.views : v.query = cc.partial_selquery
    /\ \E j \in db.jobs : j.id = cc.job_id
    /\ \E row \in db.continuous_agg : row.user_view_name = stmt.view.relname
    /\ \E t \in db.triggers : t.relid = timebucket_exprinfo.htoid

(* C15: once the enclosing transaction has aborted after a failure at any   *)
(* stage, none of the objects the compilation attempted exists; after a     *)
(* successful compilation all of them exist; a failed compilation takes no  *)
(* further step of its own (no retry, no commit of a subset).               *)
C15_AllOrNothing ==
    /\ [](pc = "aborted" => NothingExists)
    /\ [](pc = "done" => AllExist)
    /\ [][pc = "error" => (pc' = "aborted" /\ err' = err)]_vars
    /\ [][(pc \in {"aborted", "done"}) => (pc' = pc)]_vars

(* The case of C15 at work: a failure after the table and hypertable were   *)
(* created, undone by the abort                                             *)
C15_Witness ==
    /\ pc = "aborted"
    /\ err = AliasCountError
    /\ NothingExists
    /\ cc.mataddress # InvalidOid

(* C16: at most one catalog row, and one after a successful compilation; it *)
(* links the user view, the materialization hypertable this compilation     *)
(* created, the partial view, the source hypertable, the validator's bucket *)
(* width and the job's id; whenever the row exists, the table, both views   *)
(* and the job exist.                                                       *)
C16_CatalogRowLinksObjects ==
    /\ Cardinality(db.continuous_agg) <= 1
    /\ pc = "done" => Cardinality(db.continuous_agg) = 1
    /\ \A row \in db.continuous_agg :
          /\ row.user_view_schema = stmt.view.schemaname
          /\ row.user_view_name = stmt.view.relname
          /\ \E v \in db.views :
                /\ v.relid = row.user_view_schema \o "." \o row.user_view_name
                /\ v.query.rtable[1].relid = cc.mataddress
          /\ \E h \in db.hypertables :
                /\ h.id = row.mat_hypertable_id
                /\ h.relid = cc.mataddress
                /\ \E t \in db.tables : t.relid = h.relid
          /\ \E v \in db.views :
                /\ v.relid = row.partial_view_schema \o "." \o row.partial_view_name
                /\ v.query.targetList = mattblinfo.partial_seltlist
          /\ row.raw_hypertable_id
                 = ts_hypertable_cache_get_entry(timebucket_exprinfo.htoid).id
          /\ row.bucket_width = timebucket_exprinfo.bucket_width
          /\ \E j \in db.jobs :
                /\ j.id = row.job_id
                /\ j.hypertable_id = row.raw_hypertable_id
                /\ j.bucket_width = row.bucket_width

(* The case of C16 at work: the row of a finished compilation *)
C16_Witness ==
    /\ pc = "done"
    /\ \E row \in db.continuous_agg :
          /\ row.mat_hypertable_id = cc.mat_htid
          /\ row.job_id = cc.job_id
          /\ row.bucket_width = 3600
    /\ Cardinality(db.jobs) = 1
    /\ Cardinality(db.views) = 2
    /\ Cardinality(db.tables) = 1

(* y = factor * x as integers, for int64 values x and y that are not        *)
(* negative: y divided limb by limb by factor gives x and no remainder.     *)
Int64IsProduct(y, factor, x) ==
    LET d4 == y[4]
        d3 == (d4 % factor) * Int64Limb + y[3]
        d2 == (d3 % factor) * Int64Limb + y[2]
        d1 == (d2 % factor) * Int64Limb + y[1]
    IN /\ y[4] < Int64SignLimb
       /\ x[4] < Int64SignLimb
       /\ d1 % factor = 0
       /\ <<d1 \div factor, d2 \div factor, d3 \div factor, d4 \div factor>> = x

TableStepDone ==
    /\ lastcall.op = "mattablecolumninfo_create_materialization_table"
    /\ err \notin {" bad materialization internal name", "relation already exists",
                   "column specified more than once"}

(* C18: the materialization relation is registered as a hypertable on the   *)
(* bucket column the schema builder recorded, with an interval of exactly   *)
(* 10 times the source's interval, whatever 64-bit value that is.           *)
C18_IntervalTenTimesSource ==
    TableStepDone =>
        /\ pc # "error"
        /\ \E h \in db.hypertables :
              /\ h.relid = cc.mataddress
              /\ h.colname = mattblinfo.matpartcolname
              /\ mattblinfo.matcollist[mattblinfo.matpartcolno + 1].colname = h.colname
              /\ Int64IsProduct(
                     h.interval, MATPARTCOL_INTERVAL_FACTOR,
                     ts_hypertable_cache_get_entry(timebucket_exprinfo.htoid)
                         .interval_length)

(* The case of C18 at work: a source interval of 60 gives 600 *)
C18_Witness ==
    /\ TableStepDone
    /\ pc # "error"
    /\ timebucket_exprinfo.htpartcol_interval_len = Int64(HtInterval)
    /\ \E h \in db.hypertables :
          /\ h.relid = cc.mataddress
          /\ h.colname = MATPARTCOLNM
          /\ h.interval = Int64(MATPARTCOL_INTERVAL_FACTOR * HtInterval)

(* C19 as stated: the trigger's argument is the identifier of the           *)
(* materialization relation this compilation created.                       *)
C19_TriggerNamesMaterialization ==
    pc = "done" =>
        /\ db.triggers # {}
        /\ \A t \in db.triggers : t.args = <<ToString(cc.mat_htid)>>

(* C19: the trigger installed on the source relation takes one argument,    *)
(* the identifier of the source hypertable the validator found.             *)
C19_TriggerNamesSourceHypertable ==
    pc = "done" =>
        /\ Cardinality(db.triggers) = 1
        /\ \A t \in db.triggers :
              /\ t.relid = timebucket_exprinfo.htoid
              /\ t.args = <<ToString(ts_hypertable_cache_get_entry(t.relid).id)>>
              /\ t.funcname[2] = CAGG_INVALIDATION_TRIGGER
              /\ t.row
              /\ t.events = {"INSERT", "UPDATE", "DELETE"}

(* The case of C19 at work: the trigger on events names hypertable 1 while  *)
(* the materialization hypertable is number 4                               *)
C19_Witness ==
    /\ pc = "done"
    /\ cc.mat_htid = 4
    /\ \E t \in db.triggers : t.relid = "events" /\ t.args = <<"1">>

InternalColumnLast ==
    /\ mattblinfo.matcollist[Len(mattblinfo.matcollist)].colname = MATCHUNKCOLNM
    /\ mattblinfo.partial_seltlist[Len(mattblinfo.partial_seltlist)].resname
           = MATCHUNKCOLNM
    /\ mattblinfo.partial_seltlist[Len(mattblinfo.partial_seltlist)].expr.funcid
           = "chunk_for_tuple(int4,anyelement)"
    /\ \A k \in 1..(Len(mattblinfo.partial_seltlist) - 1) :
          LET e == mattblinfo.partial_seltlist[k].expr
          IN ~(e.tag = "FuncExpr" /\ e.funcid = "chunk_for_tuple(int4,anyelement)")

AfterAddInternal ==
    pc \in {"create_materialization_table", "final_view", "partial_view", "job",
            "catalog", "trigger", "done"}

(* C20: SELECT a, MIN(b), MAX(b) ... GROUP BY a, bucket gives five columns  *)
(* in allocation order: a, one partial-state column per aggregate, the      *)
(* bucket under the reserved name, the internal chunk column; in general    *)
(* the internal column is the last of both lists and no column is added     *)
(* after it.                                                                *)
C20_FiveColumnsInternalLast ==
    /\ []((AfterAddInternal
           /\ query0 = SplitQuery(<<ColA, MinB, MaxB>>, NullNode, "junk")) =>
              /\ [k \in 1..Len(mattblinfo.matcollist) |->
                      <<mattblinfo.matcollist[k].colname,
                        mattblinfo.matcollist[k].typeOid>>]
                     = <<<<"a", INT4OID>>, <<PRINT_MATCOLNAME(2), BYTEAOID>>,
                         <<PRINT_MATCOLNAME(3), BYTEAOID>>, <<MATPARTCOLNM, INT8OID>>,
                         <<MATCHUNKCOLNM, INT4OID>>>>
              /\ [k \in 1..4 |-> mattblinfo.partial_seltlist[k].expr]
                     = <<ColA, get_partialize_funcexpr(MinB),
                         get_partialize_funcexpr(MaxB), Bucket("3600")>>)
    /\ [](AfterAddInternal => InternalColumnLast)
    /\ [][AfterAddInternal => mattblinfo' = mattblinfo]_vars

(* The case of C20 at work: the five columns of the example query *)
C20_Witness ==
    /\ pc = "done"
    /\ query0 = SplitQuery(<<ColA, MinB, MaxB>>, NullNode, "junk")
    /\ Len(mattblinfo.matcollist) = 5
    /\ Len(mattblinfo.partial_seltlist) = 5
    /\ InternalColumnLast

(* C17: compilation never populates the materialization relation: until the *)
(* job has run, the table is empty and the user view returns no rows,       *)
(* whatever the source held before and whatever is inserted afterwards.     *)
C17_ViewEmptyUntilRefresh ==
    db.job_stat = {} =>
        /\ \A t \in db.tables : t.rows = {}
        /\ UserViewRows = {}

(* The case of C17 at work: the source held a row before the compilation,   *)
(* another was inserted after it, no job has run and the view is empty      *)
C17_Witness ==
    /\ pc = "done"
    /\ lastcall.op = "InsertSourceRow"
    /\ db.source_rows = {1, 2}
    /\ db.job_stat = {}
    /\ \E v \in db.views : v.relid = "public.v"
    /\ UserViewRows = {}

----------------------------------------------------------------------------
(* The derived names of a view name, and whether they fit an identifier *)
MatName(relname) == "ts_internal_" \o relname \o "tab"
PartName(relname) == "ts_internal_" \o relname \o "view"
Fits(name) == Len(name) < NAMEDATALEN
InternalAddress(name) == INTERNAL_SCHEMA_NAME \o "." \o name

(* C21: the materialization relation's name and the partial view's name are *)
(* functions of the view name alone (prefix + view name + "tab" resp.       *)
(* "view"); over all pairs of view names a materialization name never       *)
(* equals a partial-view name and distinct view names give distinct derived *)
(* names; a derived name that does not fit NAMEDATALEN is rejected with an  *)
(* error, and no relation is ever created under a truncated name.           *)
C21_DerivedNames ==
    /\ \A x \in ViewNames, y \in ViewNames :
          LET mx == PRINT_MATINTERNAL_NAME("ts_internal_", x, "tab")
              px == PRINT_MATINTERNAL_NAME("ts_internal_", x, "view")
              my == PRINT_MATINTERNAL_NAME("ts_internal_", y, "tab")
              py == PRINT_MATINTERNAL_NAME("ts_internal_", y, "view")
          IN /\ (mx.err = NoErr) <=> Fits(MatName(x))
             /\ (px.err = NoErr) <=> Fits(PartName(x))
             /\ mx.err = NoErr => mx.buf = MatName(x)
             /\ px.err = NoErr => px.buf = PartName(x)
             /\ (mx.err = NoErr /\ py.err = NoErr) => mx.buf # py.buf
             /\ (x # y /\ mx.err = NoErr /\ my.err = NoErr) => mx.buf # my.buf
             /\ (x # y /\ px.err = NoErr /\ py.err = NoErr) => px.buf # py.buf
    /\ \A t \in db.tables :
          t.relid = InternalAddress(MatName(stmt.view.relname))
          /\ Fits(MatName(stmt.view.relname))
    /\ \A v \in db.views :
          \/ v.relid = stmt.view.schemaname \o "." \o stmt.view.relname
          \/ /\ v.relid = InternalAddress(PartName(stmt.view.relname))
             /\ Fits(PartName(stmt.view.relname))
    /\ (lastcall.op = "mattablecolumninfo_create_materialization_table"
        /\ ~Fits(MatName(stmt.view.relname)))
           => (pc = "error" /\ err = " bad materialization internal name"
               /\ db.tables = {})
    /\ (lastcall.op = "mattablecolumninfo_get_partial_select_query"
        /\ ~Fits(PartName(stmt.view.relname)))
           => (pc = "error" /\ err = " bad materialization internal name"
               /\ Cardinality(db.views) = 1)

(* The view name of 48 characters: its table name fits and the table was    *)
(* created, its partial view's name does not fit and was rejected.          *)
C21_Witness ==
    /\ pc = "error"
    /\ err = " bad materialization internal name"
    /\ stmt.view.relname = ViewName48
    /\ lastcall.op = "mattablecolumninfo_get_partial_select_query"
    /\ \E t \in db.tables : t.relid = InternalAddress(MatName(ViewName48))

----------------------------------------------------------------------------
(* What one statement yields when it is the only one the database ever saw: *)
(* the first error of its steps, and the three artifacts when there is none *)
SoloSteps(q, st, tb, overflowWraps, f) ==
    LET m == mattablecolumninfo_addinternal(f.mattblinfo, f.orig_query.rtable[1],
                                            tb.htid)
        q2 == IF f.orig_query.groupClause = <<>> THEN f.orig_query
              ELSE [f.orig_query EXCEPT !.groupClause = m.partial_grouplist]
        n1 == PRINT_MATINTERNAL_NAME("ts_internal_", st.view.relname, "tab")
        t == mattablecolumninfo_create_materialization_table(
                 InitDb, m, [schemaname |-> INTERNAL_SCHEMA_NAME, relname |-> n1.buf],
                 tb, overflowWraps)
        fs == finalizequery_get_select_query(f.inp, m.matcollist, t.mataddress)
        v1 == create_view_for_query(t.db, fs.query, st.view)
        ps == mattablecolumninfo_get_partial_select_query(m, q2)
        n2 == PRINT_MATINTERNAL_NAME("ts_internal_", st.view.relname, "view")
        v2 == create_view_for_query(
                  v1.db, ps, [schemaname |-> INTERNAL_SCHEMA_NAME, relname |-> n2.buf])
    IN [err |-> IF n1.err # NoErr THEN n1.err
                ELSE IF t.err # NoErr THEN t.err
                ELSE IF fs.err # NoErr THEN fs.err
                ELSE IF v1.err # NoErr THEN v1.err
                ELSE IF n2.err # NoErr THEN n2.err
                ELSE v2.err,
        mattblinfo |-> m, final_selquery |-> fs.query, partial_selquery |-> ps]

SoloSplit(q, st, tb, overflowWraps, f) ==
    IF f.err # NoErr THEN [err |-> f.err] ELSE SoloSteps(q, st, tb, overflowWraps, f)

SoloValidated(q, st, overflowWraps, v) ==
    IF v.err # NoErr THEN [err |-> v.err]
    ELSE SoloSplit(q, st, v.ret, overflowWraps,
                   finalizequery_init(q, st.aliases,
                                      mattablecolumninfo_init(<<>>, <<>>, q.groupClause)))

SoloCompile(q, st, assertsEnabled, overflowWraps) ==
    IF get_relname_relid(InitDb, st.view.relname, st.view.schemaname)
    THEN [err |-> "continuous aggregate query already exists"]
    ELSE SoloValidated(q, st, overflowWraps, cagg_validate_query(q, assertsEnabled))

SameAsSolo(s) ==
    /\ (pc = "done") <=> (s.err = NoErr)
    /\ pc = "done" => /\ mattblinfo = s.mattblinfo
                      /\ cc.final_selquery = s.final_selquery
                      /\ cc.partial_selquery = s.partial_selquery

(* C22: of two statements for different views, run one after the other,     *)
(* each ends as it would have on its own: accepted or rejected alike, and   *)
(* when accepted with the same materialization schema, finalize query and   *)
(* partial query, whatever the other statement was.                         *)
C22_CompilationsIndependent ==
    pc \in {"done", "aborted"} =>
        \E assertsEnabled \in BOOLEAN, overflowWraps \in BOOLEAN :
            SameAsSolo(SoloCompile(query0, stmt, assertsEnabled, overflowWraps))

(* The second statement, on another hypertable than the first, was accepted *)
(* with the artifacts it has on its own.                                    *)
C22_Witness ==
    /\ pc = "done"
    /\ stmt.view.relname = "w"
    /\ Cardinality(db.continuous_agg) = 2
    /\ Cardinality(db.triggers) = 2
    /\ \E overflowWraps \in BOOLEAN :
           SameAsSolo(SoloCompile(query0, stmt, TRUE, overflowWraps))

----------------------------------------------------------------------------
(* r is o with every sub-expression that is the expression of an original   *)
(* projection entry replaced by the expression of the rewritten entry at    *)
(* the same position, all at once                                           *)
RECURSIVE IsSimultaneousSubst(_, _, _, _)
IsSimultaneousSubst(o, r, origtlist, modtlist) ==
    LET hits == {i \in 1..Len(origtlist) : origtlist[i].expr = o}
    IN IF o.tag = "NULL" THEN r = o
       ELSE IF hits # {} THEN \E i \in hits : r = modtlist[i].expr
       ELSE IF o.tag = "TargetEntry"
       THEN /\ r.tag = "TargetEntry"
            /\ r = [o EXCEPT !.expr = r.expr]
            /\ IsSimultaneousSubst(o.expr, r.expr, origtlist, modtlist)
       ELSE IF HasArgs(o)
       THEN /\ r.tag = o.tag
            /\ r = [o EXCEPT !.args = r.args]
            /\ Len(r.args) = Len(o.args)
            /\ \A k \in 1..Len(o.args) :
                   IsSimultaneousSubst(o.args[k], r.args[k], origtlist, modtlist)
       ELSE r = o

(* The predicate the first HAVING pass of finalizequery_init returned *)
FirstPassHaving == replace_targetentry_in_havingqual(query0, finalqinfo.final_seltlist)

(* C23: the first HAVING pass yields the simultaneous substitution: each    *)
(* sub-expression of the original HAVING that equals the expression of      *)
(* projection entry i becomes the rewritten expression of entry i, and an   *)
(* inserted expression is not replaced again for a later entry.             *)
C23_FirstPassSimultaneous ==
    SplitDone =>
        IsSimultaneousSubst(query0.havingQual, FirstPassHaving, query0.targetList,
                            finalqinfo.final_seltlist)

(* SELECT a, MIN(b) ... HAVING MIN(b) > 10: the first pass put the finalize *)
(* call of entry 2 in place of MIN(b).                                      *)
C23_Witness ==
    /\ SplitDone
    /\ Len(query0.targetList) = 3
    /\ query0.targetList[1].expr = ColA
    /\ query0.targetList[2].expr = MinB
    /\ query0.havingQual = Gt10(MinB)
    /\ FirstPassHaving = Gt10(finalqinfo.final_seltlist[2].expr)
    /\ IsFinalizeOf(finalqinfo.final_seltlist[2].expr, 2)

----------------------------------------------------------------------------
(* The aggregate calls of a predicate that are not finalize calls; a        *)
(* finalize call is not looked into                                         *)
RECURSIVE NonFinalizeAggs(_)
NonFinalizeAggs(node) ==
    IF node.tag = "Aggref" THEN (IF node.aggfnoid = get_finalizefnoid THEN 0 ELSE 1)
    ELSE IF node.tag = "TargetEntry" THEN NonFinalizeAggs(node.expr)
    ELSE IF HasArgs(node)
    THEN SumSeq([i \in 1..Len(node.args) |-> NonFinalizeAggs(node.args[i])])
    ELSE 0

(* The builder as the target list loop of finalizequery_init left it *)
ColumnsBeforeHaving ==
    Len(FinalizeTargetLoop(
            [targetList |-> query0.targetList,
             cxt |-> [mattblinfo |-> mattablecolumninfo_init(<<>>, <<>>,
                                                             query0.groupClause),
                      addcol |-> FALSE, ignore_aggoid |-> InvalidOid, err |-> NoErr],
             final_seltlist |-> <<>>], 1).cxt.mattblinfo.matcollist)

FinalizeCalls(node) ==
    {n \in SubNodes(node) : n.tag = "Aggref" /\ n.aggfnoid = get_finalizefnoid}

----------------------------------------------------------------------------
(* A call of a function that is not immutable occurs in the tree *)
HasNonImmutableCall(node) ==
    \E n \in SubNodes(node) :
        n.tag = "FuncExpr" /\ pg_proc[n.funcid].provolatile # "i"

(* C25: mattablecolumninfo_addentry rejects every input that contains a     *)
(* call of a function that is not immutable, and a rejected call (that one  *)
(* or an input of a kind it does not know) leaves matcollist,               *)
(* partial_seltlist, partial_grouplist, matpartcolno and matpartcolname as  *)
(* they were and returns no column.                                         *)
C25_RejectionLeavesBuilder ==
    [][lastcall'.op = "addentry" =>
          /\ HasNonImmutableCall(lastcall'.input)
                 => lastcall'.err = "only immutable functions are supported for continuous aggregate query"
          /\ lastcall'.input.tag \notin {"Aggref", "TargetEntry"} => lastcall'.err # NoErr
          /\ lastcall'.err # NoErr => (mattblinfo' = mattblinfo /\ lastcall'.var = NullNode)
          /\ lastcall'.err = NoErr => mattblinfo' # mattblinfo]_vars

(* A time_bucket column and another column exist when an entry calling      *)
(* now() is rejected.                                                       *)
C25_Witness ==
    /\ lastcall.op = "addentry"
    /\ lastcall.err = "only immutable functions are supported for continuous aggregate query"
    /\ lastcall.input.tag = "TargetEntry"
    /\ Len(mattblinfo.matcollist) = 2
    /\ mattblinfo.matpartcolname = MATPARTCOLNM

----------------------------------------------------------------------------
(* The input is a projection entry whose expression is a time_bucket call *)
IsBucketEntry(input) ==
    /\ input.tag = "TargetEntry"
    /\ input.expr.tag = "FuncExpr"
    /\ pg_proc[input.expr.funcid].proname = TIMEBUCKETFN

(* The name a new column at position colno gets for an input *)
ExpectedColumnName(input, colno) ==
    IF IsBucketEntry(input) THEN "time_partition_col"
    ELSE IF input.tag = "TargetEntry" /\ input.resname # NoName THEN input.resname
    ELSE "tscol" \o ToString(colno)

(* C26: an accepted mattablecolumninfo_addentry call with n columns before  *)
(* it appends column n + 1 and returns a Var of relation 1 with attribute   *)
(* number n + 1 and the column's type; the column is named by the entry's   *)
(* own name if the input is a projection entry that has one, else           *)
(* tscol<n + 1>, and always time_partition_col for a time_bucket entry,     *)
(* after which matpartcolno (counted from 0) and matpartcolname are that    *)
(* column's.                                                                *)
C26_ColumnPositionAndName ==
    [][(lastcall'.op = "addentry" /\ lastcall'.err = NoErr) =>
          LET n == Len(mattblinfo.matcollist)
              input == lastcall'.input
              col == mattblinfo'.matcollist[n + 1]
          IN /\ Len(mattblinfo'.matcollist) = n + 1
             /\ SubSeq(mattblinfo'.matcollist, 1, n) = mattblinfo.matcollist
             /\ lastcall'.var.tag = "Var"
             /\ lastcall'.var.varno = 1
             /\ lastcall'.var.varattno = n + 1
             /\ lastcall'.var.vartype = col.typeOid
             /\ col.typeOid = IF input.tag = "Aggref" THEN BYTEAOID
                              ELSE exprType(input.expr)
             /\ col.colname = ExpectedColumnName(input, n + 1)
             /\ IF IsBucketEntry(input)
                THEN /\ mattblinfo'.matpartcolno = n
                     /\ mattblinfo'.matpartcolname = col.colname
                ELSE /\ mattblinfo'.matpartcolno = mattblinfo.matpartcolno
                     /\ mattblinfo'.matpartcolname = mattblinfo.matpartcolname]_vars

(* Column a under its own name, then the time_bucket entry as column 2 *)
C26_Witness ==
    /\ lastcall.op = "addentry"
    /\ lastcall.err = NoErr
    /\ IsBucketEntry(lastcall.input)
    /\ lastcall.input.resname = "time_bucket"
    /\ lastcall.var.varattno = 2
    /\ Len(mattblinfo.matcollist) = 2
    /\ mattblinfo.matcollist[1].colname = "a"
    /\ mattblinfo.matcollist[2].colname = MATPARTCOLNM
    /\ mattblinfo.matpartcolno = 1

----------------------------------------------------------------------------
(* The group references in use in a builder: those of its partial select    *)
(* list and those its grouping list names                                   *)
TagsInUse(matinfo) ==
    {0} \cup {matinfo.partial_seltlist[i].ressortgroupref :
                 i \in 1..Len(matinfo.partial_seltlist)}
        \cup {matinfo.partial_grouplist[i].tleSortGroupRef :
                 i \in 1..Len(matinfo.partial_grouplist)}

(* The entries of a target list that carry a group reference *)
EntriesWithRef(tlist, ref) == {i \in 1..Len(tlist) : tlist[i].ressortgroupref = ref}

(* C27: the mattablecolumninfo_addinternal step of a compilation appends    *)
(* the chunk_id column to matcollist, the chunk_for_tuple entry to          *)
(* partial_seltlist and one clause to partial_grouplist; the clause's       *)
(* reference is the entry's, it is the largest reference in use plus one,   *)
(* it differs from every clause already in the list, and every clause of    *)
(* the resulting list names exactly one entry of partial_seltlist.          *)
C27_InternalColumnGrouped ==
    [][(pc = "addinternal" /\ pc' = "create_materialization_table") =>
          LET old == mattblinfo
              new == mattblinfo'
              col == new.matcollist[Len(new.matcollist)]
              te == new.partial_seltlist[Len(new.partial_seltlist)]
              grp == new.partial_grouplist[Len(new.partial_grouplist)]
          IN /\ new.matcollist = Append(old.matcollist, col)
             /\ col.colname = "chunk_id"
             /\ col.typeOid = INT4OID
             /\ new.partial_seltlist = Append(old.partial_seltlist, te)
             /\ te.resname = "chunk_id"
             /\ te.expr.tag = "FuncExpr"
             /\ te.expr.funcid = "chunk_for_tuple(int4,anyelement)"
             /\ new.partial_grouplist = Append(old.partial_grouplist, grp)
             /\ grp.tleSortGroupRef = te.ressortgroupref
             /\ \A t \in TagsInUse(old) : t < grp.tleSortGroupRef
             /\ grp.tleSortGroupRef - 1 \in TagsInUse(old)
             /\ \A i \in 1..Len(old.partial_grouplist) :
                   old.partial_grouplist[i].tleSortGroupRef # grp.tleSortGroupRef
             /\ \A i \in 1..Len(new.partial_grouplist) :
                   Cardinality(EntriesWithRef(new.partial_seltlist,
                                   new.partial_grouplist[i].tleSortGroupRef)) = 1]_vars

(* The chunk column after three grouped columns and two partial aggregates *)
C27_Witness ==
    /\ lastcall.op = "mattablecolumninfo_addinternal"
    /\ Len(mattblinfo.partial_seltlist) = 6
    /\ Len(mattblinfo.partial_grouplist) = 4
    /\ mattblinfo.partial_grouplist[4].tleSortGroupRef = 4
    /\ mattblinfo.partial_seltlist[6].ressortgroupref = 4
    /\ mattblinfo.matcollist[6].colname = MATCHUNKCOLNM
    /\ \E i \in 1..5 : mattblinfo.partial_seltlist[i].ressortgroupref = 0

----------------------------------------------------------------------------
(* Both views of the compilation have been created *)
BothQueriesBuilt == pc \in {"job", "catalog", "trigger", "done"}

(* C28: the partial query has the rtable and the jointree of the query as   *)
(* the statement received it, WHERE quals included; its target list is      *)
(* partial_seltlist, its groupClause is the received groupClause followed   *)
(* by the clause of the chunk_id entry, and it has no havingQual and no     *)
(* sortClause.  The finalize query has no quals and its havingQual is       *)
(* final_havingqual, present exactly when the received query has one.       *)
C28_PartialAndFinalizeQueries ==
    BothQueriesBuilt =>
        LET partial == cc.partial_selquery
            final == cc.final_selquery
            n == Len(query0.groupClause)
            chunk_te == partial.targetList[Len(partial.targetList)]
        IN /\ partial.rtable = query0.rtable
           /\ partial.jointree = query0.jointree
           /\ partial.jointree.quals = query0.jointree.quals
           /\ partial.targetList = mattblinfo.partial_seltlist
           /\ Len(partial.groupClause) = n + 1
           /\ SubSeq(partial.groupClause, 1, n) = query0.groupClause
           /\ chunk_te.resname = MATCHUNKCOLNM
           /\ partial.groupClause[n + 1].tleSortGroupRef = chunk_te.ressortgroupref
           /\ partial.havingQual = NullNode
           /\ "sortClause" \notin partial.feat
           /\ final.jointree.quals = NullNode
           /\ final.jointree.fromlist = query0.jointree.fromlist
           /\ final.havingQual = finalqinfo.final_havingqual
           /\ (final.havingQual = NullNode) <=> (query0.havingQual = NullNode)

(* A query with a WHERE clause and HAVING min(b) > 10, both views created *)
C28_Witness ==
    /\ pc = "done"
    /\ query0.jointree.quals = Gt10(ColA)
    /\ query0.havingQual = Gt10(MinB)
    /\ cc.partial_selquery.jointree.quals = Gt10(ColA)
    /\ cc.partial_selquery.havingQual = NullNode
    /\ cc.final_selquery.jointree.quals = NullNode
    /\ cc.final_selquery.havingQual # NullNode
    /\ cc.final_selquery.havingQual # query0.havingQual

----------------------------------------------------------------------------
(* The names of a column list *)
ColumnNames(matcollist) == [k \in 1..Len(matcollist) |-> matcollist[k].colname]

NamesDistinct(names) ==
    \A i, j \in 1..Len(names) : i # j => names[i] # names[j]

----------------------------------------------------------------------------
(* The output positions of a target list *)
Resnos(tlist) == [k \in 1..Len(tlist) |-> tlist[k].resno]

(* C30: once the schema builder has all its columns, the k-th entry of      *)
(* partial_seltlist has resno k, for every k, so that no two entries share  *)
(* a resno; in particular for SELECT a, <aggregate> + <aggregate> ...       *)
(* GROUP BY a, time_bucket.                                                 *)
C30_PartialResnoIsPosition ==
    AfterAddInternal =>
        /\ Len(mattblinfo.partial_seltlist) = Len(mattblinfo.matcollist)
        /\ \A k \in 1..Len(mattblinfo.partial_seltlist) :
              mattblinfo.partial_seltlist[k].resno = k

(* SELECT a, min(b), time_bucket ... : every entry is copied or built at    *)
(* its own position                                                         *)
C30_Witness ==
    /\ pc = "done"
    /\ VisibleEntries(query0.targetList) = query0.targetList
    /\ Len(query0.targetList) = 3
    /\ query0.targetList[2].expr = MinB
    /\ Resnos(mattblinfo.partial_seltlist) = <<1, 2, 3, 4>>

====
